---- MODULE Spec2Model ----
(***************************************************************************)
(* Mailbox Warmup Orchestrator of ra-cold-email-agent.                     *)
(*                                                                         *)
(* The store of SenderMailbox rows, the WarmupEmail and WarmupAlert        *)
(* tables and the clock are the state; every pipeline entry point          *)
(* (assessment run, peer-warmup cycle, auto-reply cycle, outreach send,    *)
(* daily count reset, recovery start / sweep) is one action.               *)
(*                                                                         *)
(* Numbers.  Time is in minutes since an arbitrary epoch.  Percent rates   *)
(* and the float settings that are compared with them are held in          *)
(* thousandths of a percent (5.0% = 5000), health scores in tenths of a    *)
(* point (80.0 = 800) and the recovery ramp factor in hundredths           *)
(* (1.5 = 150); the divisions of the code are carried out exactly and      *)
(* rounded where the code rounds.                                          *)
(***************************************************************************)
EXTENDS Integers, Sequences, FiniteSets, Bags, TLC

VARIABLES
    mailboxes,      \* sender_mailboxes table: mailbox_id -> row
    config,         \* the warmup settings read by load_warmup_config / _get_setting
    now,            \* datetime.utcnow(), in minutes
    warmup_emails,  \* warmup_emails table, in id order
    alerts,         \* warmup_alerts table, in id order
    blacklist_check_results,  \* blacklist_check_results table, in id order
    dns_check_results,        \* dns_check_results table, in id order
    warmup_daily_logs,        \* warmup_daily_logs table, in id order
    sessions,                 \* the open database sessions of overlapping operations
    prev,           \* history: the sender_mailboxes table before the last operation
    last            \* history: what the last operation was and what it returned

\* the tables only the monitoring jobs write
tables == <<blacklist_check_results, dns_check_results, warmup_daily_logs>>

vars == <<mailboxes, config, now, warmup_emails, alerts, tables, sessions, prev, last>>

----------------------------------------------------------------------------
(* Bounds of the model *)

NumMailboxes == 2
MaxNowDays == 2
MaxEmails == 3
MaxRecoveryDays == 8
MaxAlerts == 2
MaxChecks == 3
NumSessions == 2
MaxPhaseDays == 3

MB == 1..NumMailboxes

None == -1

MinutesPerDay == 24 * 60

----------------------------------------------------------------------------
(* Arithmetic helpers *)

Max(a, b) == IF a >= b THEN a ELSE b
Min(a, b) == IF a <= b THEN a ELSE b

\* timedelta.days of (b - a) for b >= a
DaysBetween(a, b) == (b - a) \div MinutesPerDay

RECURSIVE Gcd(_, _)
Gcd(a, b) == IF b = 0 THEN a ELSE Gcd(b, a % b)

\* exact fractions <<numerator, denominator>>, denominator > 0, in lowest terms
Frac(n, d) ==
    LET g == Gcd(IF n < 0 THEN -n ELSE n, d)
    IN  IF n = 0 THEN <<0, 1>> ELSE <<n \div g, d \div g>>
FAdd(x, y) ==
    LET g == Gcd(x[2], y[2])
    IN  Frac(x[1] * (y[2] \div g) + y[1] * (x[2] \div g), (x[2] \div g) * y[2])
FScale(x, k) ==
    LET g == Gcd(IF k < 0 THEN -k ELSE k, x[2])
    IN  IF k = 0 THEN <<0, 1>> ELSE Frac(x[1] * (k \div g), x[2] \div g)
FDiv(x, k) ==
    LET g == Gcd(IF x[1] < 0 THEN -x[1] ELSE x[1], k)
    IN  IF x[1] = 0 THEN <<0, 1>> ELSE Frac(x[1] \div g, x[2] * (k \div g))

\* Python round(): n/d (n >= 0, d > 0) to the nearest integer, ties to even
RoundHalfEven(n, d) ==
    LET q == n \div d
        r == n % d
    IN  IF 2 * r < d THEN q
        ELSE IF 2 * r > d THEN q + 1
        ELSE IF q % 2 = 0 THEN q ELSE q + 1

----------------------------------------------------------------------------
(* Settings: load_warmup_config and the _get_setting defaults *)

DefaultConfig ==
    [ phase_1_days |-> 7, phase_1_min_emails |-> 2,  phase_1_max_emails |-> 5,
      phase_2_days |-> 7, phase_2_min_emails |-> 5,  phase_2_max_emails |-> 15,
      phase_3_days |-> 7, phase_3_min_emails |-> 15, phase_3_max_emails |-> 25,
      phase_4_days |-> 9, phase_4_min_emails |-> 25, phase_4_max_emails |-> 35,
      bounce_rate_good |-> 2000, bounce_rate_bad |-> 5000,
      reply_rate_good |-> 10000, complaint_rate_bad |-> 100,
      weight_bounce_rate |-> 35, weight_reply_rate |-> 25,
      weight_complaint_rate |-> 25, weight_age |-> 15,
      auto_pause_bounce_rate |-> 5000, auto_pause_complaint_rate |-> 300,
      min_emails_for_scoring |-> 10,
      active_health_threshold |-> 80, active_min_days |-> 7,
      total_days |-> 30,
      peer_enabled |-> TRUE, peer_max_emails_per_pair |-> 3,
      auto_reply_enabled |-> TRUE, auto_reply_rate |-> 50,
      auto_reply_min_delay |-> 15, auto_reply_max_delay |-> 90,
      auto_recovery_enabled |-> TRUE,
      recovery_wait_days |-> 3, recovery_ramp_factor |-> 150,
      skip_weekends |-> TRUE,
      auto_pause_on_blacklist |-> TRUE ]

PhaseDays(cfg, p) ==
    CASE p = 1 -> cfg.phase_1_days [] p = 2 -> cfg.phase_2_days
      [] p = 3 -> cfg.phase_3_days [] OTHER -> cfg.phase_4_days
PhaseMin(cfg, p) ==
    CASE p = 1 -> cfg.phase_1_min_emails [] p = 2 -> cfg.phase_2_min_emails
      [] p = 3 -> cfg.phase_3_min_emails [] OTHER -> cfg.phase_4_min_emails
PhaseMax(cfg, p) ==
    CASE p = 1 -> cfg.phase_1_max_emails [] p = 2 -> cfg.phase_2_max_emails
      [] p = 3 -> cfg.phase_3_max_emails [] OTHER -> cfg.phase_4_max_emails

----------------------------------------------------------------------------
(* Phase / limit scheduler *)

\* mutant: the phase boundaries are taken one day early
get_warmup_phase_Early(day, cfg) ==
    LET p1_end == cfg.phase_1_days
        p2_end == p1_end + cfg.phase_2_days
        p3_end == p2_end + cfg.phase_3_days
    IN  IF day < p1_end THEN 1
        ELSE IF day < p2_end THEN 2
        ELSE IF day < p3_end THEN 3
        ELSE 4

get_warmup_phase(day, cfg) ==
    LET p1_end == cfg.phase_1_days
        p2_end == p1_end + cfg.phase_2_days
        p3_end == p2_end + cfg.phase_3_days
    IN  IF day <= p1_end THEN 1
        ELSE IF day <= p2_end THEN 2
        ELSE IF day <= p3_end THEN 3
        ELSE 4

RECURSIVE PhaseStart(_, _)
PhaseStart(cfg, phase) ==
    IF phase <= 1 THEN 0 ELSE PhaseStart(cfg, phase - 1) + PhaseDays(cfg, phase - 1)

\* mutant: the interpolation counts the days of the phase from 0
get_daily_limit_for_day_FromZero(day, cfg) ==
    LET phase == get_warmup_phase(day, cfg)
        phase_days == PhaseDays(cfg, phase)
        min_emails == PhaseMin(cfg, phase)
        max_emails == PhaseMax(cfg, phase)
        day_in_phase == day - PhaseStart(cfg, phase)
        num == min_emails * (phase_days - 1) + day_in_phase * (max_emails - min_emails)
    IN  IF phase_days <= 1 THEN max_emails
        ELSE IF num <= 0 THEN 1
        ELSE Max(1, RoundHalfEven(num, phase_days - 1))

get_daily_limit_for_day(day, cfg) ==
    LET phase == get_warmup_phase(day, cfg)
        phase_days == PhaseDays(cfg, phase)
        min_emails == PhaseMin(cfg, phase)
        max_emails == PhaseMax(cfg, phase)
        day_in_phase == day - PhaseStart(cfg, phase)
        \* limit = min_emails + (day_in_phase - 1) / (phase_days - 1) * (max_emails - min_emails)
        num == min_emails * (phase_days - 1) + (day_in_phase - 1) * (max_emails - min_emails)
    IN  IF phase_days <= 1 THEN max_emails
        ELSE IF num <= 0 THEN 1
        ELSE Max(1, RoundHalfEven(num, phase_days - 1))

----------------------------------------------------------------------------
(* Health score calculator *)

\* mutant: the weighted sum is divided by the total weight without the
\* total_weight > 0 test
WeightedAverage_Unguarded(weighted, total_weight) ==
    IF total_weight # 0
    THEN [value |-> FDiv(weighted, total_weight), fault |-> FALSE]
    ELSE [value |-> <<0, 1>>, fault |-> TRUE]

\* (sum of score * weight) / total_weight if total_weight > 0 else 0.0;
\* fault marks a ZeroDivisionError
WeightedAverage(weighted, total_weight) ==
    IF total_weight > 0
    THEN [value |-> FDiv(weighted, total_weight), fault |-> FALSE]
    ELSE [value |-> <<0, 1>>, fault |-> FALSE]

\* round(score, 1) of an exact score, in tenths of a point
RoundTenths(x) == RoundHalfEven(10 * x[1], x[2])

calculate_health_score(mb, cfg, t) ==
    LET total_sent == mb.total_emails_sent
        \* the exact rates are b / ts, r / ts and c / ts thousandths of a percent
        \* (0 when nothing was sent)
        ts == IF total_sent > 0 THEN total_sent ELSE 1
        b == IF total_sent > 0 THEN 100000 * mb.bounce_count ELSE 0
        r == IF total_sent > 0 THEN 100000 * mb.reply_count ELSE 0
        c == IF total_sent > 0 THEN 100000 * mb.complaint_count ELSE 0
        age_days == DaysBetween(mb.created_at, t)
        good == cfg.bounce_rate_good
        bad == cfg.bounce_rate_bad
        bounce_score ==
            IF b <= good * ts THEN <<100, 1>>
            ELSE IF b >= bad * ts THEN <<0, 1>>
            ELSE IF bad = good THEN <<0, 1>>
            ELSE FScale(Frac(bad * ts - b, (bad - good) * ts), 100)
        reply_good == cfg.reply_rate_good
        reply_score ==
            IF r >= reply_good * ts THEN <<100, 1>>
            ELSE IF r <= 0 THEN <<0, 1>>
            ELSE IF reply_good = 0 THEN <<0, 1>>
            ELSE FScale(Frac(r, reply_good * ts), 100)
        complaint_bad == cfg.complaint_rate_bad
        complaint_score ==
            IF c <= 0 THEN <<100, 1>>
            ELSE IF c >= complaint_bad * ts THEN <<0, 1>>
            ELSE IF complaint_bad = 0 THEN <<0, 1>>
            ELSE FScale(Frac(complaint_bad * ts - c, complaint_bad * ts), 100)
        age_score ==
            IF age_days >= 90 THEN <<100, 1>> ELSE Frac(100 * age_days, 90)
        total_weight == cfg.weight_bounce_rate + cfg.weight_reply_rate
                          + cfg.weight_complaint_rate + cfg.weight_age
        weighted ==
            FAdd(FAdd(FScale(bounce_score, cfg.weight_bounce_rate),
                      FScale(reply_score, cfg.weight_reply_rate)),
                 FAdd(FScale(complaint_score, cfg.weight_complaint_rate),
                      FScale(age_score, cfg.weight_age)))
        average == WeightedAverage(weighted, total_weight)
        health == average.value
        \* a division of the code whose divisor is zero on the branch taken
        division_fault ==
            \/ (b > good * ts /\ b < bad * ts /\ bad = good)
            \/ (r < reply_good * ts /\ r > 0 /\ reply_good = 0)
            \/ (c > 0 /\ c < complaint_bad * ts /\ complaint_bad = 0)
            \/ average.fault
    IN  [ health_score |-> RoundHalfEven(10 * health[1], health[2]),
          bounce_score |-> RoundTenths(bounce_score),
          reply_score |-> RoundTenths(reply_score),
          complaint_score |-> RoundTenths(complaint_score),
          age_score |-> RoundTenths(age_score),
          division_fault |-> division_fault,
          bounce_rate |->
              IF total_sent > 0 THEN 10 * RoundHalfEven(10000 * mb.bounce_count, total_sent)
              ELSE 0,
          complaint_rate |->
              IF total_sent > 0 THEN RoundHalfEven(100000 * mb.complaint_count, total_sent)
              ELSE 0,
          account_age_days |-> age_days ]

----------------------------------------------------------------------------
(* SenderMailbox rows *)

WarmupStatus ==
    {"warming_up", "cold_ready", "active", "paused", "inactive", "blacklisted", "recovering"}

\* the column defaults of a newly created row (created at time t)
NewMailbox(t) ==
    [ warmup_status |-> "inactive", is_active |-> TRUE,
      connection_status |-> "untested",
      daily_send_limit |-> 30, emails_sent_today |-> 0, total_emails_sent |-> 0,
      bounce_count |-> 0, reply_count |-> 0, complaint_count |-> 0,
      warmup_started_at |-> None, warmup_completed_at |-> None,
      warmup_days_completed |-> 0,
      created_at |-> t, updated_at |-> t,
      warmup_emails_sent |-> 0, warmup_emails_received |-> 0, warmup_replies |-> 0,
      is_blacklisted |-> FALSE, auto_recovery_started_at |-> None,
      last_dns_check_at |-> None, last_blacklist_check_at |-> None,
      dns_score |-> 0, last_connection_test_at |-> None ]

\* no operation has a session open
NoSessions == <<>>

\* the monitoring tables of a fresh database
EmptyTables ==
    /\ blacklist_check_results = <<>>
    /\ dns_check_results = <<>>
    /\ warmup_daily_logs = <<>>

\* updated_at has onupdate=func.now(): a flush that changes the row stamps it
Flush(old, new, t) ==
    IF new = old THEN old ELSE [new EXCEPT !.updated_at = t]

FlushAll(old, new, t) == [m \in MB |-> Flush(old[m], new[m], t)]

----------------------------------------------------------------------------
(* Assessment engine *)

NoAction == [kind |-> "no_change", reason |-> <<>>, day |-> 0, phase |-> 0]

\* mutant: the bounce-rate reason is left out of the action
AutoPauseReason_ComplaintOnly(health, cfg) ==
    IF health.complaint_rate > cfg.auto_pause_complaint_rate
    THEN <<"complaint_rate">> ELSE <<>>

AutoPauseReason(health, cfg) ==
    (IF health.bounce_rate > cfg.auto_pause_bounce_rate THEN <<"bounce_rate">> ELSE <<>>)
    \o (IF health.complaint_rate > cfg.auto_pause_complaint_rate
        THEN <<"complaint_rate">> ELSE <<>>)

\* mutant: the guard is only applied to mailboxes that are warming up, so the
\* promotion logic runs first for the others
AutoPauseFires_WarmingOnly(mb, health, cfg) ==
    /\ mb.total_emails_sent >= cfg.min_emails_for_scoring
    /\ \/ health.bounce_rate > cfg.auto_pause_bounce_rate
       \/ health.complaint_rate > cfg.auto_pause_complaint_rate
    /\ mb.warmup_status = "warming_up"

\* the auto-pause check of assess_mailbox, on a mailbox that is not yet paused
AutoPauseFires(mb, health, cfg) ==
    /\ mb.total_emails_sent >= cfg.min_emails_for_scoring
    /\ \/ health.bounce_rate > cfg.auto_pause_bounce_rate
       \/ health.complaint_rate > cfg.auto_pause_complaint_rate
    /\ mb.warmup_status # "paused"

\* mutant: the lifetime-volume condition is left out
PromotionDue_NoVolumeCheck(mb, health, cfg, t) ==
    LET days_since_ready ==
            IF mb.warmup_completed_at # None
            THEN DaysBetween(mb.warmup_completed_at, t) ELSE 0
    IN  /\ days_since_ready >= cfg.active_min_days
        /\ health.health_score >= 10 * cfg.active_health_threshold

\* the promotion test of the COLD_READY branch
PromotionDue(mb, health, cfg, t) ==
    LET days_since_ready ==
            IF mb.warmup_completed_at # None
            THEN DaysBetween(mb.warmup_completed_at, t) ELSE 0
    IN  /\ days_since_ready >= cfg.active_min_days
        /\ health.health_score >= 10 * cfg.active_health_threshold
        /\ mb.total_emails_sent >= cfg.min_emails_for_scoring

\* The branches of assess_mailbox.  Each takes the mailbox and the result as
\* initialised (base) and gives the mailbox and the result the branch leaves.

\* auto-pause: force PAUSED and return at once
AutoPause(mb, base, health, cfg) ==
    [ mailbox |-> [mb EXCEPT !.warmup_status = "paused"],
      result |-> [base EXCEPT !.new_status = "paused",
                    !.action = [NoAction EXCEPT !.kind = "auto_paused",
                                  !.reason = AutoPauseReason(health, cfg)]] ]

\* current == INACTIVE
StartWarmup(mb, base, cfg, t) ==
    IF mb.is_active THEN
        [ mailbox |-> [mb EXCEPT !.warmup_status = "warming_up",
                         !.warmup_started_at = t,
                         !.warmup_days_completed = 0,
                         !.daily_send_limit = get_daily_limit_for_day(1, cfg)],
          result |-> [base EXCEPT !.new_status = "warming_up",
                        !.action = [NoAction EXCEPT !.kind = "started_warmup"],
                        !.daily_limit = get_daily_limit_for_day(1, cfg)] ]
    ELSE [ mailbox |-> mb, result |-> base ]

\* mutant: a completed warmup is promoted straight to ACTIVE
AdvanceWarmup_SkipColdReady(mb, base, cfg, t) ==
    LET day == mb.warmup_days_completed + 1
    IN  IF day > cfg.total_days THEN
            [ mailbox |-> [mb EXCEPT !.warmup_status = "active",
                             !.warmup_completed_at = t],
              result |-> [base EXCEPT !.new_status = "active",
                            !.action = [NoAction EXCEPT !.kind = "warmup_completed"]] ]
        ELSE
            [ mailbox |-> [mb EXCEPT
                             !.daily_send_limit = get_daily_limit_for_day(day, cfg),
                             !.warmup_days_completed = day],
              result |-> [base EXCEPT
                            !.daily_limit = get_daily_limit_for_day(day, cfg),
                            !.action = [NoAction EXCEPT !.kind = "day", !.day = day,
                                          !.phase = get_warmup_phase(day, cfg)]] ]

\* mutant: the warmup is completed one assessment early, on day total_days
AdvanceWarmup_EarlyFinish(mb, base, cfg, t) ==
    LET day == mb.warmup_days_completed + 1
    IN  IF day >= cfg.total_days THEN
            [ mailbox |-> [mb EXCEPT !.warmup_status = "cold_ready",
                             !.warmup_completed_at = t],
              result |-> [base EXCEPT !.new_status = "cold_ready",
                            !.action = [NoAction EXCEPT !.kind = "warmup_completed"]] ]
        ELSE
            [ mailbox |-> [mb EXCEPT
                             !.daily_send_limit = get_daily_limit_for_day(day, cfg),
                             !.warmup_days_completed = day],
              result |-> [base EXCEPT
                            !.daily_limit = get_daily_limit_for_day(day, cfg),
                            !.action = [NoAction EXCEPT !.kind = "day", !.day = day,
                                          !.phase = get_warmup_phase(day, cfg)]] ]

\* current == WARMING_UP
AdvanceWarmup(mb, base, cfg, t) ==
    LET day == mb.warmup_days_completed + 1
    IN  IF day > cfg.total_days THEN
            [ mailbox |-> [mb EXCEPT !.warmup_status = "cold_ready",
                             !.warmup_completed_at = t],
              result |-> [base EXCEPT !.new_status = "cold_ready",
                            !.action = [NoAction EXCEPT !.kind = "warmup_completed"]] ]
        ELSE
            [ mailbox |-> [mb EXCEPT
                             !.daily_send_limit = get_daily_limit_for_day(day, cfg),
                             !.warmup_days_completed = day],
              result |-> [base EXCEPT
                            !.daily_limit = get_daily_limit_for_day(day, cfg),
                            !.action = [NoAction EXCEPT !.kind = "day", !.day = day,
                                          !.phase = get_warmup_phase(day, cfg)]] ]

\* current == COLD_READY
PromoteColdReady(mb, base, health, cfg, t) ==
    IF PromotionDue(mb, health, cfg, t) THEN
        [ mailbox |-> [mb EXCEPT !.warmup_status = "active"],
          result |-> [base EXCEPT !.new_status = "active",
                        !.action = [NoAction EXCEPT !.kind = "promoted_to_active"]] ]
    ELSE [ mailbox |-> mb, result |-> base ]

\* assess_mailbox: the mailbox after the assessment and the returned result
assess_mailbox(id, mb, cfg, t) ==
    LET health == calculate_health_score(mb, cfg, t)
        base == [ mailbox_id |-> id, old_status |-> mb.warmup_status,
                  new_status |-> mb.warmup_status, action |-> NoAction,
                  health_score |-> health.health_score,
                  daily_limit |-> mb.daily_send_limit ]
        current == mb.warmup_status
    IN  IF AutoPauseFires(mb, health, cfg) THEN AutoPause(mb, base, health, cfg)
        ELSE IF current = "inactive" THEN StartWarmup(mb, base, cfg, t)
        ELSE IF current = "warming_up" THEN AdvanceWarmup(mb, base, cfg, t)
        ELSE IF current = "cold_ready" THEN PromoteColdReady(mb, base, health, cfg, t)
        ELSE [ mailbox |-> mb, result |-> base ]

\* the mailboxes a run selects: one connected mailbox, or all active connected ones
AssessSelection(store, mailbox_id) ==
    IF mailbox_id # 0
    THEN {m \in MB : m = mailbox_id /\ store[m].connection_status = "successful"}
    ELSE {m \in MB : store[m].is_active /\ store[m].connection_status = "successful"}

NoDetail ==
    [ mailbox_id |-> 0, old_status |-> "", new_status |-> "", action |-> NoAction,
      health_score |-> 0, daily_limit |-> 0 ]

\* what goes wrong in a run: outside names the statement outside the
\* per-mailbox loop that raises ("job_insert": the commit of the RUNNING job
\* row; "load_config"; "select": the mailbox query; "final_commit"; "none"),
\* raising is the set of mailboxes whose assessment raises before it writes,
\* recorded says whether the commit of the FAILED status goes through
NoFault == [outside |-> "none", raising |-> {}, recorded |-> TRUE]

\* the job_runs row of a run; status "absent" when the row was never stored
NoJob == [status |-> "absent", error_message |-> FALSE, assessed |-> 0, errors |-> 0]

NoLast ==
    [ op |-> "none", mailbox_id |-> 0, details |-> [m \in MB |-> NoDetail],
      status_changes |-> 0, auto_paused |-> 0, promoted |-> 0, assessed |-> 0,
      repeat |-> FALSE, started |-> {}, advanced |-> {}, completed |-> {},
      candidates |-> {}, replied |-> {},
      alerts_before |-> EmptyBag, new_alerts |-> EmptyBag,
      sends |-> {}, peers |-> [m \in MB |-> <<>>],
      tables_before |-> <<<<>>, <<>>, <<>>>>, emails_before |-> <<>>,
      fault |-> NoFault, job |-> NoJob ]

ErrorDetail(m) ==
    [NoDetail EXCEPT !.mailbox_id = m, !.action = [NoAction EXCEPT !.kind = "error"]]

JobRunOf(fault, assessed, errors) ==
    CASE fault.outside = "job_insert" -> NoJob
      [] fault.outside = "none" ->
            [NoJob EXCEPT !.status = "completed", !.assessed = assessed,
                          !.errors = errors]
      [] OTHER ->
            IF fault.recorded
            THEN [NoJob EXCEPT !.status = "failed", !.error_message = TRUE]
            ELSE [NoJob EXCEPT !.status = "running"]

\* run_warmup_assessment(mailbox_id) under a fault: mailbox_id = 0 stands for "all"
RunWarmupAssessmentWith(mailbox_id, fault) ==
    LET reached == fault.outside \in {"none", "final_commit"}
        committed == fault.outside = "none"
        sel == IF reached THEN AssessSelection(mailboxes, mailbox_id) ELSE {}
        good == sel \ fault.raising
        out == [m \in MB |-> assess_mailbox(m, mailboxes[m], config, now)]
        details == [m \in MB |->
                      IF ~committed THEN NoDetail
                      ELSE IF m \in good THEN out[m].result
                      ELSE IF m \in sel THEN ErrorDetail(m)
                      ELSE NoDetail]
        done == IF committed THEN good ELSE {}
    IN  /\ mailboxes' = [m \in MB |->
                           IF m \in done THEN Flush(mailboxes[m], out[m].mailbox, now)
                           ELSE mailboxes[m]]
        /\ prev' = mailboxes
        /\ last' = [NoLast EXCEPT
                      !.op = "assess", !.mailbox_id = mailbox_id, !.details = details,
                      !.alerts_before = alerts,
                      !.fault = fault,
                      !.job = JobRunOf(fault, Cardinality(good),
                                       Cardinality(sel \cap fault.raising)),
                      !.assessed = Cardinality(done),
                      !.status_changes =
                          Cardinality({m \in done : details[m].old_status # details[m].new_status}),
                      !.auto_paused =
                          Cardinality({m \in done : details[m].action.kind = "auto_paused"}),
                      !.promoted =
                          Cardinality({m \in done : details[m].action.kind = "promoted_to_active"}),
                      !.repeat = (last.op = "assess" /\ last.mailbox_id = 0
                                    /\ mailbox_id = 0)]
        /\ UNCHANGED <<tables, sessions, config, now, warmup_emails, alerts>>

\* the run in which nothing raises
RunWarmupAssessment(mailbox_id) == RunWarmupAssessmentWith(mailbox_id, NoFault)

AssessAll == RunWarmupAssessment(0)

AssessOne == \E m \in MB : RunWarmupAssessment(m)

\* the clock advances by d minutes
Tick(d) ==
    /\ now + d <= MaxNowDays * MinutesPerDay
    /\ now' = now + d
    /\ prev' = mailboxes
    /\ last' = [NoLast EXCEPT !.op = "tick", !.alerts_before = alerts]
    /\ UNCHANGED <<tables, sessions, mailboxes, config, warmup_emails, alerts>>

----------------------------------------------------------------------------
(* Specification SpecAssess: assessment runs over a store whose first       *)
(* mailbox is drawn from the cases of the state machine                     *)

\* a two-day warmup with a one-day wait before promotion
ShortConfig ==
    [DefaultConfig EXCEPT !.phase_1_days = 2, !.phase_2_days = 1, !.phase_3_days = 1,
                          !.phase_4_days = 1, !.total_days = 2,
                          !.active_min_days = 1]

AssessConfigs ==
    { ShortConfig,
      [ShortConfig EXCEPT !.active_min_days = 0, !.active_health_threshold = 60] }

\* <<total_emails_sent, bounce_count, complaint_count, reply_count>>
Metrics ==
    { <<0, 0, 0, 0>>, <<9, 1, 0, 2>>, <<9, 0, 0, 2>>, <<100, 6, 0, 20>>,
      <<100, 0, 1, 20>>, <<100, 0, 0, 20>>, <<100, 3, 0, 20>>,
      <<20001, 1001, 0, 2001>> }

ConnectedMailbox(t) == [NewMailbox(t) EXCEPT !.connection_status = "successful"]

\* <<warmup_status, warmup_days_completed, warmup_completed_at>> at time t
Progress(cfg, t) ==
    ({"warming_up"} \X {0, cfg.total_days - 1, cfg.total_days} \X {None})
    \cup ({"cold_ready"} \X {cfg.total_days}
            \X {None, t - MinutesPerDay + 1, t - MinutesPerDay})
    \cup ({"active"} \X {cfg.total_days} \X {t - MinutesPerDay})
    \cup ({"inactive"} \X {0} \X {None})
    \cup ({"paused", "blacklisted", "recovering"} \X {0, cfg.total_days - 1} \X {None})

SubjectMailboxes(cfg, t) ==
    { [ConnectedMailbox(0) EXCEPT
          !.warmup_status = pr[1], !.is_active = ac[1], !.connection_status = ac[2],
          !.total_emails_sent = mt[1], !.bounce_count = mt[2],
          !.complaint_count = mt[3], !.reply_count = mt[4],
          !.warmup_days_completed = pr[2], !.warmup_completed_at = pr[3]] :
        pr \in Progress(cfg, t),
        ac \in {<<TRUE, "successful">>, <<FALSE, "successful">>, <<TRUE, "failed">>},
        mt \in Metrics }

InitAssess ==
    /\ config \in AssessConfigs
    /\ now = MaxNowDays * MinutesPerDay
    /\ mailboxes \in {f \in [MB -> SubjectMailboxes(config, now) \cup {ConnectedMailbox(0)}] :
                        \A m \in MB : m > 1 => f[m] = ConnectedMailbox(0)}
    /\ warmup_emails = <<>>
    /\ alerts = EmptyBag
    /\ EmptyTables
    /\ sessions = NoSessions
    /\ prev = mailboxes
    /\ last = NoLast

NextAssess == AssessAll \/ AssessOne

SpecAssess == InitAssess /\ [][NextAssess]_vars

----------------------------------------------------------------------------
(* Properties of the assessment engine, checked under SpecAssess *)

\* mailbox m was assessed by the last operation
Assessed(m) == last.op = "assess" /\ last.details[m].mailbox_id = m

Range(q) == {q[i] : i \in 1..Len(q)}

\* C1: an assessment of a mailbox that is not PAUSED, has sent at least
\* min_emails_for_scoring and whose bounce rate or complaint rate is above its
\* auto-pause threshold leaves it PAUSED and applies no advancement or promotion:
\* warmup_days_completed, daily_send_limit, warmup_started_at and
\* warmup_completed_at are as before.
C1_AutoPausePrecedence ==
    \A m \in MB :
        LET h == calculate_health_score(prev[m], config, now)
        IN  ( /\ Assessed(m)
              /\ prev[m].warmup_status # "paused"
              /\ prev[m].total_emails_sent >= config.min_emails_for_scoring
              /\ \/ h.bounce_rate > config.auto_pause_bounce_rate
                 \/ h.complaint_rate > config.auto_pause_complaint_rate )
            => /\ mailboxes[m].warmup_status = "paused"
               /\ last.details[m].new_status = "paused"
               /\ mailboxes[m].warmup_days_completed = prev[m].warmup_days_completed
               /\ mailboxes[m].daily_send_limit = prev[m].daily_send_limit
               /\ mailboxes[m].warmup_started_at = prev[m].warmup_started_at
               /\ mailboxes[m].warmup_completed_at = prev[m].warmup_completed_at

\* a COLD_READY mailbox that met every promotion condition was auto-paused
C1_Witness ==
    \E m \in MB :
        /\ Assessed(m)
        /\ prev[m].warmup_status = "cold_ready"
        /\ PromotionDue(prev[m], calculate_health_score(prev[m], config, now), config, now)
        /\ last.details[m].action.kind = "auto_paused"
        /\ mailboxes[m].warmup_status = "paused"

\* the scenario of C2: 100 sent, 6 bounced, auto_pause_bounce_rate = 5.0
BounceScenario(m) ==
    /\ Assessed(m)
    /\ prev[m].total_emails_sent = 100
    /\ prev[m].bounce_count = 6
    /\ config.auto_pause_bounce_rate = 5000
    /\ config.min_emails_for_scoring <= 100

\* C2 as claimed: in the scenario the mailbox is left PAUSED whatever its prior
\* status, and the returned action indicates the bounce-rate reason.
C2_PausedWithReasonFromAnyStatus ==
    \A m \in MB :
        BounceScenario(m)
        => /\ mailboxes[m].warmup_status = "paused"
           /\ last.details[m].action.kind = "auto_paused"
           /\ "bounce_rate" \in Range(last.details[m].action.reason)

\* C2 as amended: in the scenario the mailbox is left PAUSED whatever its prior
\* status; the returned action indicates the bounce-rate reason when the prior
\* status was not PAUSED, and is no_change when it was already PAUSED.
C2_PausedReasonUnlessAlreadyPaused ==
    \A m \in MB :
        BounceScenario(m)
        => /\ mailboxes[m].warmup_status = "paused"
           /\ prev[m].warmup_status # "paused"
                => /\ last.details[m].action.kind = "auto_paused"
                   /\ "bounce_rate" \in Range(last.details[m].action.reason)
           /\ prev[m].warmup_status = "paused"
                => last.details[m].action = NoAction

\* the scenario on a BLACKLISTED mailbox, paused with the bounce-rate reason
C2_Witness ==
    \E m \in MB :
        /\ BounceScenario(m)
        /\ prev[m].warmup_status = "blacklisted"
        /\ mailboxes[m].warmup_status = "paused"
        /\ last.details[m].action.reason = <<"bounce_rate">>

TransitionOfEngine(a, b) ==
    \/ a # "paused" /\ b = "paused"
    \/ a = "inactive" /\ b = "warming_up"
    \/ a = "warming_up" /\ b = "cold_ready"
    \/ a = "cold_ready" /\ b = "active"

\* C3: an assessment run changes a mailbox's status only by one of: non-PAUSED ->
\* PAUSED, INACTIVE -> WARMING_UP, WARMING_UP -> COLD_READY, COLD_READY -> ACTIVE;
\* so an ACTIVE mailbox stays ACTIVE or becomes PAUSED, no mailbox is moved into
\* RECOVERING, BLACKLISTED or INACTIVE, and a PAUSED mailbox keeps its status.
C3_OnlyDefinedTransitions ==
    last.op = "assess" =>
        \A m \in MB :
            LET a == prev[m].warmup_status
                b == mailboxes[m].warmup_status
            IN  /\ a # b => Assessed(m) /\ TransitionOfEngine(a, b)
                /\ a = "active" => b \in {"active", "paused"}
                /\ b \in {"recovering", "blacklisted", "inactive"} => a = b
                /\ a = "paused" => b = "paused"
                /\ Assessed(m) => /\ last.details[m].old_status = a
                                  /\ last.details[m].new_status = b

\* an ACTIVE mailbox was paused by an assessment
C3_Witness ==
    \E m \in MB :
        /\ Assessed(m)
        /\ prev[m].warmup_status = "active"
        /\ mailboxes[m].warmup_status = "paused"

\* C8: an assessment sets a mailbox to ACTIVE only from COLD_READY and only when
\* days since warmup_completed_at >= active_min_days, health_score >=
\* active_health_threshold and total_emails_sent >= min_emails_for_scoring; when
\* one of the three fails and the auto-pause guard does not fire, a COLD_READY
\* mailbox stays COLD_READY.
C8_PromotionNeedsAllThree ==
    \A m \in MB :
        Assessed(m) =>
            LET p == prev[m]
                days == IF p.warmup_completed_at = None THEN 0
                        ELSE (now - p.warmup_completed_at) \div MinutesPerDay
                all3 == /\ days >= config.active_min_days
                        /\ last.details[m].health_score >= 10 * config.active_health_threshold
                        /\ p.total_emails_sent >= config.min_emails_for_scoring
            IN  /\ (mailboxes[m].warmup_status = "active" /\ p.warmup_status # "active")
                      => p.warmup_status = "cold_ready" /\ all3
                /\ (p.warmup_status = "cold_ready" /\ ~all3
                       /\ mailboxes[m].warmup_status # "paused")
                      => mailboxes[m].warmup_status = "cold_ready"

\* a COLD_READY mailbox was promoted to ACTIVE
C8_Witness ==
    \E m \in MB :
        /\ Assessed(m)
        /\ prev[m].warmup_status = "cold_ready"
        /\ mailboxes[m].warmup_status = "active"
        /\ last.details[m].action.kind = "promoted_to_active"

\* C9 as claimed: an "assess all" run that immediately follows another "assess
\* all" run, with nothing in between, reports no status change.
C9_SecondRunChangesNoStatus ==
    (last.op = "assess" /\ last.repeat) => last.status_changes = 0

----------------------------------------------------------------------------
(* Specification SpecWarmup: newly created mailboxes under the default      *)
(* phases, assessed again and again                                         *)

WarmupConfigs ==
    { DefaultConfig, [DefaultConfig EXCEPT !.total_days = 8] }

InitWarmup ==
    /\ config \in WarmupConfigs
    /\ now = 0
    /\ mailboxes = [m \in MB |-> ConnectedMailbox(0)]
    /\ warmup_emails = <<>>
    /\ alerts = EmptyBag
    /\ EmptyTables
    /\ sessions = NoSessions
    /\ prev = mailboxes
    /\ last = NoLast

NextWarmup == AssessAll \/ AssessOne

SpecWarmup == InitWarmup /\ [][NextWarmup]_vars

\* C6: with phase_1_days = 7 and total_days >= 8, the first assessment of an
\* active INACTIVE mailbox makes it WARMING_UP with the limit of warmup day 1,
\* the phase-1 min_emails (no day completed yet); each of the next seven
\* assessments completes one more day, days 1 to 7, all in phase 1; the
\* assessment after those completes day 8, which is in phase 2.
C6_FirstWeekThenPhaseTwo ==
    (config.phase_1_days = 7 /\ config.total_days >= 8) =>
        \A m \in MB :
            Assessed(m) =>
                LET p == prev[m]
                    c == mailboxes[m]
                    a == last.details[m].action
                IN  /\ (p.warmup_status = "inactive" /\ p.is_active)
                          => /\ c.warmup_status = "warming_up"
                             /\ c.warmup_days_completed = 0
                             /\ c.warmup_started_at = now
                             /\ c.daily_send_limit = config.phase_1_min_emails
                             /\ last.details[m].daily_limit = config.phase_1_min_emails
                             /\ a.kind = "started_warmup"
                    /\ (p.warmup_status = "warming_up" /\ p.warmup_days_completed < 7)
                          => /\ c.warmup_status = "warming_up"
                             /\ c.warmup_days_completed = p.warmup_days_completed + 1
                             /\ a.kind = "day" /\ a.day = c.warmup_days_completed
                             /\ a.phase = 1
                             /\ c.daily_send_limit >= config.phase_1_min_emails
                             /\ c.daily_send_limit <= config.phase_1_max_emails
                    /\ (p.warmup_status = "warming_up" /\ p.warmup_days_completed = 7)
                          => /\ c.warmup_status = "warming_up"
                             /\ c.warmup_days_completed = 8
                             /\ a.kind = "day" /\ a.day = 8 /\ a.phase = 2
                             /\ c.daily_send_limit = config.phase_2_min_emails

\* a mailbox started by the engine has just completed day 8, in phase 2
C6_Witness ==
    \E m \in MB :
        /\ config.phase_1_days = 7
        /\ Assessed(m)
        /\ mailboxes[m].warmup_started_at # None
        /\ prev[m].warmup_days_completed = 7
        /\ mailboxes[m].warmup_days_completed = 8
        /\ last.details[m].action.phase = 2

----------------------------------------------------------------------------
(* Auto-recovery service                                                    *)

\* mutant: the ramped limit is rounded up instead of truncated
RampLimit_Ceiling(limit, cfg) ==
    Min(Max(2, (limit * cfg.recovery_ramp_factor + 99) \div 100), 35)

\* int(n / d) of Python for d > 0: truncation toward zero
IntTrunc(n, d) == IF n >= 0 THEN n \div d ELSE -((-n) \div d)

\* new_limit = max(2, int(limit * ramp_factor)); limit = min(new_limit, 35)
RampLimit(limit, cfg) ==
    Min(Max(2, IntTrunc(limit * cfg.recovery_ramp_factor, 100)), 35)

check_recovery_eligibility(mb, cfg, t) ==
    /\ mb.warmup_status \in {"paused", "blacklisted"}
    /\ mb.updated_at # None
    /\ DaysBetween(mb.updated_at, t) >= cfg.recovery_wait_days

RecoveryAlert(id, title) ==
    [ mailbox_id |-> id, alert_type |-> "auto_recovered", severity |-> "info",
      title |-> title ]

start_recovery(mb, t) ==
    [mb EXCEPT !.warmup_status = "recovering",
               !.auto_recovery_started_at = t,
               !.warmup_days_completed = 0,
               !.daily_send_limit = 2,
               !.emails_sent_today = 0]

complete_recovery(mb) ==
    [mb EXCEPT !.warmup_status = "warming_up",
               !.auto_recovery_started_at = None]

\* mutant: recovery completes on the limit alone
advance_recovery_LimitOnly(mb, cfg) ==
    IF mb.warmup_status # "recovering" THEN mb
    ELSE LET ramped == [mb EXCEPT
                          !.daily_send_limit = RampLimit(mb.daily_send_limit, cfg),
                          !.warmup_days_completed = mb.warmup_days_completed + 1]
         IN  IF ramped.daily_send_limit >= 25
             THEN complete_recovery(ramped)
             ELSE ramped

advance_recovery(mb, cfg) ==
    IF mb.warmup_status # "recovering" THEN mb
    ELSE LET ramped == [mb EXCEPT
                          !.daily_send_limit = RampLimit(mb.daily_send_limit, cfg),
                          !.warmup_days_completed = mb.warmup_days_completed + 1]
         IN  IF ramped.daily_send_limit >= 25 /\ ramped.warmup_days_completed >= 7
             THEN complete_recovery(ramped)
             ELSE ramped

\* POST /warmup/recovery/{mailbox_id}/start: any existing mailbox, any status
StartRecoveryEndpoint ==
    \E m \in MB :
        /\ BagCardinality(alerts) < MaxAlerts
        /\ mailboxes' = [mailboxes EXCEPT
                           ![m] = Flush(mailboxes[m], start_recovery(mailboxes[m], now), now)]
        /\ alerts' = alerts (+) SetToBag({RecoveryAlert(m, "recovery_started")})
        /\ prev' = mailboxes
        /\ last' = [NoLast EXCEPT
                      !.op = "start_recovery", !.mailbox_id = m, !.started = {m},
                      !.alerts_before = alerts,
                      !.new_alerts = SetToBag({RecoveryAlert(m, "recovery_started")})]
        /\ UNCHANGED <<tables, sessions, config, now, warmup_emails>>

\* run_auto_recovery_check: advance every RECOVERING mailbox, then start the
\* recovery of every eligible PAUSED or BLACKLISTED one
RunAutoRecoveryCheck ==
    LET recovering == {m \in MB : mailboxes[m].warmup_status = "recovering"}
        advanced == [m \in MB |->
                       IF m \in recovering
                       THEN Flush(mailboxes[m], advance_recovery(mailboxes[m], config), now)
                       ELSE mailboxes[m]]
        completed == {m \in recovering : advanced[m].warmup_status = "warming_up"}
        paused == {m \in MB : advanced[m].warmup_status \in {"paused", "blacklisted"}}
        eligible == {m \in paused : check_recovery_eligibility(advanced[m], config, now)}
        added == SetToBag({RecoveryAlert(m, "recovery_complete") : m \in completed}
                          \cup {RecoveryAlert(m, "recovery_started") : m \in eligible})
    IN  IF ~config.auto_recovery_enabled
        THEN /\ prev' = mailboxes
             /\ last' = [NoLast EXCEPT !.op = "recovery_check", !.alerts_before = alerts]
             /\ UNCHANGED <<tables, sessions, mailboxes, config, now, warmup_emails, alerts>>
        ELSE /\ \A m \in recovering : mailboxes[m].warmup_days_completed < MaxRecoveryDays
             /\ BagCardinality(alerts) + BagCardinality(added) <= MaxAlerts
             /\ mailboxes' = [m \in MB |->
                                IF m \in eligible
                                THEN Flush(advanced[m], start_recovery(advanced[m], now), now)
                                ELSE advanced[m]]
             /\ alerts' = alerts (+) added
             /\ prev' = mailboxes
             /\ last' = [NoLast EXCEPT
                           !.op = "recovery_check", !.started = eligible,
                           !.advanced = recovering, !.completed = completed,
                           !.alerts_before = alerts,
                           !.new_alerts = added]
             /\ UNCHANGED <<tables, sessions, config, now, warmup_emails>>

TickDay == Tick(MinutesPerDay)

----------------------------------------------------------------------------
(* Specification SpecRecovery: paused, blacklisted and warming mailboxes    *)
(* under the recovery check, the recovery endpoint and the assessment       *)

RecoveryConfigs ==
    { [ShortConfig EXCEPT !.recovery_wait_days = 1],
      [ShortConfig EXCEPT !.recovery_wait_days = 1, !.recovery_ramp_factor = 300],
      [ShortConfig EXCEPT !.recovery_wait_days = 1, !.auto_recovery_enabled = FALSE] }

RecoverySubjects ==
    { [ConnectedMailbox(0) EXCEPT !.warmup_status = "paused", !.daily_send_limit = 5],
      [ConnectedMailbox(0) EXCEPT !.warmup_status = "blacklisted", !.is_blacklisted = TRUE],
      [ConnectedMailbox(0) EXCEPT !.warmup_status = "warming_up",
                                  !.warmup_started_at = 0,
                                  !.warmup_days_completed = 1,
                                  !.daily_send_limit = 5] }

InitRecovery ==
    /\ config \in RecoveryConfigs
    /\ now = MinutesPerDay \div 2
    /\ \E first \in RecoverySubjects :
          mailboxes = [m \in MB |-> IF m = 1 THEN first
                                    ELSE [ConnectedMailbox(0) EXCEPT
                                            !.warmup_status = "paused"]]
    /\ warmup_emails = <<>>
    /\ alerts = EmptyBag
    /\ EmptyTables
    /\ sessions = NoSessions
    /\ prev = mailboxes
    /\ last = NoLast

NextRecovery ==
    \/ RunAutoRecoveryCheck
    \/ StartRecoveryEndpoint
    \/ AssessAll
    \/ TickDay

SpecRecovery == InitRecovery /\ [][NextRecovery]_vars

\* the alerts about mailbox m in a bag of alerts
AlertsAbout(m, bag) ==
    LET about == {a \in BagToSet(bag) : a.mailbox_id = m}
    IN  [a \in about |-> bag[a]]

\* the limits of a recovery under ramp factor 1.5, by recovery days completed
RampOfOneAndAHalf == <<2, 3, 4, 6>>

\* C10: starting recovery on a PAUSED mailbox makes it RECOVERING with
\* daily_send_limit 2, warmup_days_completed 0 and emails_sent_today 0 and adds
\* exactly one alert, of severity info, about it; every advance sets the limit
\* to the floor of limit times factor kept within [2, 35] and, under factor
\* 1.5, the first three advances after a start give 3, 4 and 6 in that order.
C10_StartThenRamp ==
    /\ \A m \in last.started :
          prev[m].warmup_status = "paused" =>
              /\ mailboxes[m].warmup_status = "recovering"
              /\ mailboxes[m].daily_send_limit = 2
              /\ mailboxes[m].warmup_days_completed = 0
              /\ mailboxes[m].emails_sent_today = 0
              /\ BagCardinality(AlertsAbout(m, last.new_alerts)) = 1
              /\ \A a \in BagToSet(AlertsAbout(m, last.new_alerts)) : a.severity = "info"
              /\ alerts = last.alerts_before (+) last.new_alerts
    /\ \A m \in last.advanced :
          LET l == prev[m].daily_send_limit
              f == config.recovery_ramp_factor
          IN  /\ mailboxes[m].daily_send_limit >= 2
              /\ mailboxes[m].daily_send_limit <= 35
              /\ (100 * 2 <= l * f /\ l * f < 100 * (35 + 1))
                    => /\ 100 * mailboxes[m].daily_send_limit <= l * f
                       /\ l * f < 100 * (mailboxes[m].daily_send_limit + 1)
              /\ mailboxes[m].warmup_days_completed = prev[m].warmup_days_completed + 1
    /\ \A m \in MB :
          ( /\ config.recovery_ramp_factor = 150
            /\ mailboxes[m].warmup_status = "recovering"
            /\ mailboxes[m].warmup_days_completed < Len(RampOfOneAndAHalf) )
          => mailboxes[m].daily_send_limit
                 = RampOfOneAndAHalf[mailboxes[m].warmup_days_completed + 1]

\* the third advance after a start from PAUSED has just set the limit to 6
C10_Witness ==
    \E m \in MB :
        /\ config.recovery_ramp_factor = 150
        /\ m \in last.advanced
        /\ mailboxes[m].auto_recovery_started_at # None
        /\ prev[m].daily_send_limit = 4
        /\ mailboxes[m].daily_send_limit = 6
        /\ mailboxes[m].warmup_days_completed = 3
        /\ \E a \in BagToSet(alerts) :
              a.mailbox_id = m /\ a.title = "recovery_started"

WarmingOrRecovering == {"warming_up", "recovering"}

\* C7: warmup_days_completed never decreases between two consecutive states
\* in which the mailbox is WARMING_UP or RECOVERING, and it is set to 0 exactly
\* on INACTIVE -> WARMING_UP and on a transition into RECOVERING.
C7_DaysCompletedMonotone ==
    \A m \in MB :
        LET p == prev[m]
            c == mailboxes[m]
            resetting ==
                \/ p.warmup_status = "inactive" /\ c.warmup_status = "warming_up"
                \/ p.warmup_status # "recovering" /\ c.warmup_status = "recovering"
        IN  /\ (p.warmup_status \in WarmingOrRecovering
                  /\ c.warmup_status \in WarmingOrRecovering)
                   => c.warmup_days_completed >= p.warmup_days_completed
            /\ resetting => c.warmup_days_completed = 0
            /\ (p.warmup_days_completed # 0 /\ c.warmup_days_completed = 0) => resetting

----------------------------------------------------------------------------
(* Peer warmup network                                                      *)

\* datetime.weekday() of the day of minute t; day 0 of the clock is a
\* Thursday (Monday is 0, Saturday 5, Sunday 6)
Weekday(t) == (3 + t \div MinutesPerDay) % 7

should_skip_weekend(cfg, t) == cfg.skip_weekends /\ Weekday(t) >= 5

\* length of the Python slice peers[:k] of a list of n elements
SliceLen(n, k) == IF k >= 0 THEN Min(k, n) ELSE Max(0, n + k)

\* mutant: the sender itself is not filtered out of its peers
PeerCandidates_WithSelf(store, sender) ==
    { m \in MB : /\ store[m].warmup_status \in {"warming_up", "recovering"}
                 /\ store[m].is_active
                 /\ store[m].connection_status = "successful" }

PeerCandidates(store, sender) ==
    { m \in MB : /\ m # sender
                 /\ store[m].warmup_status \in {"warming_up", "recovering"}
                 /\ store[m].is_active
                 /\ store[m].connection_status = "successful" }

\* every list get_peer_pairs can return: the head of a shuffle of the
\* candidates, cut at warmup_peer_max_emails_per_pair
get_peer_pairs(store, sender, cfg) ==
    LET peers == PeerCandidates(store, sender)
        len == SliceLen(Cardinality(peers), cfg.peer_max_emails_per_pair)
    IN  IF peers = {} THEN { <<>> }
        ELSE { ps \in [1..len -> peers] :
                  \A i, j \in 1..len : i # j => ps[i] # ps[j] }

NewWarmupEmail(sender, receiver, success, t, original) ==
    [ sender_mailbox_id |-> sender, receiver_mailbox_id |-> receiver,
      status |-> IF success THEN "sent" ELSE "failed",
      sent_at |-> t, opened_at |-> None, replied_at |-> None,
      in_reply_to |-> original ]   \* in_reply_to: history only, 0 for a peer email

\* the sends one sender attempts in a cycle: one per peer, in order, until
\* emails_sent_today reaches daily_send_limit
RECURSIVE PeerAttempts(_, _, _, _, _)
PeerAttempts(sent, limit, ps, ok, i) ==
    IF i > Len(ps) \/ sent >= limit THEN <<>>
    ELSE <<[peer |-> ps[i], success |-> ok[i], sent_before |-> sent, limit |-> limit]>>
         \o PeerAttempts(IF ok[i] THEN sent + 1 ELSE sent, limit, ps, ok, i + 1)

Successes(attempts) ==
    Cardinality({i \in 1..Len(attempts) : attempts[i].success})

\* mutant: the peer's received counter moves on a failed send too
SuccessesTo_AnyOutcome(attempts, peer) ==
    Cardinality({i \in 1..Len(attempts) : attempts[i].peer = peer})

SuccessesTo(attempts, peer) ==
    Cardinality({i \in 1..Len(attempts) : attempts[i].success /\ attempts[i].peer = peer})

RECURSIVE SumOver(_, _)
SumOver(f, S) ==
    IF S = {} THEN 0
    ELSE LET x == CHOOSE y \in S : TRUE IN f[x] + SumOver(f, S \ {x})

RECURSIVE PeerRows(_, _, _)
PeerRows(attempts, m, t) ==
    IF m > NumMailboxes THEN <<>>
    ELSE [i \in 1..Len(attempts[m]) |->
             NewWarmupEmail(m, attempts[m][i].peer, attempts[m][i].success, t, 0)]
         \o PeerRows(attempts, m + 1, t)

PeerSenders(store, mailbox_id) ==
    { m \in MB : /\ store[m].warmup_status \in {"warming_up", "recovering"}
                 /\ store[m].is_active
                 /\ store[m].connection_status = "successful"
                 /\ (mailbox_id = 0 \/ m = mailbox_id) }

\* run_peer_warmup_cycle(mailbox_id): mailbox_id = 0 stands for "all"
RunPeerWarmupCycle(mailbox_id) ==
    IF should_skip_weekend(config, now) \/ ~config.peer_enabled
    THEN /\ prev' = mailboxes
         /\ last' = [NoLast EXCEPT !.op = "peer_cycle", !.mailbox_id = mailbox_id,
                                   !.alerts_before = alerts]
         /\ UNCHANGED <<tables, sessions, mailboxes, config, now, warmup_emails, alerts>>
    ELSE LET senders == { m \in PeerSenders(mailboxes, mailbox_id) :
                             mailboxes[m].emails_sent_today < mailboxes[m].daily_send_limit }
             longest == SliceLen(NumMailboxes - 1, config.peer_max_emails_per_pair)
             \* the peer list and the send outcomes of mailbox m; a mailbox
             \* that does not send and the sends that are never made are left
             \* at one value
             ChoicesOf(m) ==
                 IF m \notin senders
                 THEN { [pick |-> CHOOSE ps \in get_peer_pairs(mailboxes, m, config) : TRUE,
                         ok |-> [i \in 1..longest |-> TRUE]] }
                 ELSE { c \in [pick : get_peer_pairs(mailboxes, m, config),
                               ok : [1..longest -> BOOLEAN]] :
                          \A i \in 1..longest :
                              i > Len(PeerAttempts(mailboxes[m].emails_sent_today,
                                                   mailboxes[m].daily_send_limit,
                                                   c.pick, c.ok, 1)) => c.ok[i] }
             RECURSIVE ChoiceLists(_)
             ChoiceLists(m) ==
                 IF m > NumMailboxes THEN { <<>> }
                 ELSE { <<c>> \o rest : c \in ChoicesOf(m), rest \in ChoiceLists(m + 1) }
         IN  \E choice \in ChoiceLists(1) :
                LET pick == [m \in MB |-> choice[m].pick]
                    ok == [m \in MB |-> choice[m].ok]
                    attempts == [m \in MB |->
                                   IF m \in senders
                                   THEN PeerAttempts(mailboxes[m].emails_sent_today,
                                                     mailboxes[m].daily_send_limit,
                                                     pick[m], ok[m], 1)
                                   ELSE <<>>]
                    sent == [m \in MB |-> Successes(attempts[m])]
                    received == [m \in MB |->
                                   SumOver([x \in MB |-> SuccessesTo(attempts[x], m)], MB)]
                    rows == PeerRows(attempts, 1, now)
                    after == [m \in MB |->
                                [mailboxes[m] EXCEPT
                                   !.emails_sent_today = @ + sent[m],
                                   !.total_emails_sent = @ + sent[m],
                                   !.warmup_emails_sent = @ + sent[m],
                                   !.warmup_emails_received = @ + received[m]]]
                IN  /\ Len(warmup_emails) + Len(rows) <= MaxEmails
                    /\ mailboxes' = FlushAll(mailboxes, after, now)
                    /\ warmup_emails' = warmup_emails \o rows
                    /\ prev' = mailboxes
                    /\ last' = [NoLast EXCEPT
                                  !.op = "peer_cycle", !.mailbox_id = mailbox_id,
                                  !.alerts_before = alerts,
                                  !.peers = [m \in MB |-> IF m \in senders THEN pick[m] ELSE <<>>],
                                  !.sends = UNION { { [mb |-> m, by |-> "peer",
                                                       sent_before |-> attempts[m][i].sent_before,
                                                       limit |-> attempts[m][i].limit,
                                                       success |-> attempts[m][i].success] :
                                                      i \in 1..Len(attempts[m]) } :
                                                    m \in senders } ]
                    /\ UNCHANGED <<tables, sessions, config, now, alerts>>

\* the rows the auto-reply cycle selects, in row order
\* mutant: the selection looks at the age of an email only
ReplyCandidates_AnyStatus(emails, cfg, t) ==
    { i \in 1..Len(emails) :
         /\ emails[i].sent_at <= t - cfg.auto_reply_min_delay
         /\ emails[i].sent_at >= t - MinutesPerDay }

ReplyCandidates(emails, cfg, t) ==
    { i \in 1..Len(emails) :
         /\ emails[i].status = "sent"
         /\ emails[i].replied_at = None
         /\ emails[i].receiver_mailbox_id # None
         /\ emails[i].sent_at <= t - cfg.auto_reply_min_delay
         /\ emails[i].sent_at >= t - MinutesPerDay }

\* the draws of one candidate: random.random() in hundredths, the delay of
\* random.randint(min_delay, max_delay) and the outcome of the SMTP send; the
\* extremes stand for the ranges
ReplyDraws(cfg) ==
    [ rate : {0, 99},
      delay : {cfg.auto_reply_min_delay, cfg.auto_reply_max_delay},
      success : BOOLEAN ]

\* mutant: a receiver whose connection failed replies too
ReplyAttempted_IgnoreConnection(store, email, draw, cfg, t) ==
    /\ ~(draw.rate > cfg.auto_reply_rate)
    /\ ~(t - email.sent_at < draw.delay)
    /\ store[email.receiver_mailbox_id].is_active

ReplyAttempted(store, email, draw, cfg, t) ==
    /\ ~(draw.rate > cfg.auto_reply_rate)
    /\ ~(t - email.sent_at < draw.delay)
    /\ store[email.receiver_mailbox_id].is_active
    /\ store[email.receiver_mailbox_id].connection_status = "successful"

\* the loop of run_auto_reply_cycle over the candidates from index i on
RECURSIVE ReplyLoop(_, _, _, _, _, _, _)
ReplyLoop(acc, original, i, cands, draws, cfg, t) ==
    IF i > Len(original) THEN acc
    ELSE IF i \notin cands
              \/ ~ReplyAttempted(acc.store, original[i], draws[i], cfg, t)
         THEN ReplyLoop(acc, original, i + 1, cands, draws, cfg, t)
         ELSE LET e == original[i]
                  r == e.receiver_mailbox_id
                  x == e.sender_mailbox_id
                  decision == [mb |-> r, by |-> "reply",
                               sent_before |-> acc.store[r].emails_sent_today,
                               limit |-> acc.store[r].daily_send_limit,
                               success |-> draws[i].success]
                  credited == [acc.store EXCEPT
                                 ![x].reply_count = @ + 1,
                                 ![x].warmup_replies = @ + 1]
                  counted == [credited EXCEPT
                                 ![r].emails_sent_today = @ + 1,
                                 ![r].total_emails_sent = @ + 1,
                                 ![r].warmup_emails_sent = @ + 1]
              IN  IF draws[i].success
                  THEN ReplyLoop([store |-> counted,
                                  emails |-> [acc.emails EXCEPT
                                                ![i].status = "replied",
                                                ![i].replied_at = t]
                                             \o <<NewWarmupEmail(r, x, TRUE, t, i)>>,
                                  sends |-> acc.sends \cup {decision},
                                  replied |-> acc.replied \cup {i}],
                                 original, i + 1, cands, draws, cfg, t)
                  ELSE ReplyLoop([acc EXCEPT !.sends = @ \cup {decision}],
                                 original, i + 1, cands, draws, cfg, t)

NoDraw == [rate |-> 0, delay |-> 0, success |-> TRUE]

RunAutoReplyCycle ==
    IF should_skip_weekend(config, now) \/ ~config.auto_reply_enabled
    THEN /\ prev' = mailboxes
         /\ last' = [NoLast EXCEPT !.op = "auto_reply", !.alerts_before = alerts,
                                   !.emails_before = warmup_emails]
         /\ UNCHANGED <<tables, sessions, mailboxes, config, now, warmup_emails, alerts>>
    ELSE LET cands == ReplyCandidates(warmup_emails, config, now)
             \* the draws of row i: none for a row that is no candidate; draws
             \* the loop never reads are left at one value
             DrawsOf(i) ==
                 IF i \notin cands THEN {NoDraw}
                 ELSE { d \in ReplyDraws(config) :
                          /\ d.rate > config.auto_reply_rate
                                => d.delay = config.auto_reply_min_delay
                          /\ ~ReplyAttempted(mailboxes, warmup_emails[i], d, config, now)
                                => d.success }
             RECURSIVE DrawLists(_)
             DrawLists(i) ==
                 IF i > Len(warmup_emails) THEN { <<>> }
                 ELSE { <<d>> \o rest : d \in DrawsOf(i), rest \in DrawLists(i + 1) }
         IN  \E draws \in DrawLists(1) :
                LET out == ReplyLoop([store |-> mailboxes, emails |-> warmup_emails,
                                      sends |-> {}, replied |-> {}],
                                     warmup_emails, 1, cands, draws, config, now)
                IN  /\ Len(out.emails) <= MaxEmails
                    /\ mailboxes' = FlushAll(mailboxes, out.store, now)
                    /\ warmup_emails' = out.emails
                    /\ prev' = mailboxes
                    /\ last' = [NoLast EXCEPT
                                  !.op = "auto_reply", !.alerts_before = alerts,
                                  !.sends = out.sends, !.replied = out.replied,
                                  !.candidates = cands, !.details = draws,
                                  !.emails_before = warmup_emails]
                    /\ UNCHANGED <<tables, sessions, config, now, alerts>>

\* one pass of the contact loop of run_outreach_send_pipeline: the least
\* loaded eligible mailbox sends, and the send succeeds or fails
OutreachSenders(store) ==
    LET eligible == { m \in MB :
                        /\ store[m].is_active
                        /\ store[m].warmup_status \in {"cold_ready", "active"}
                        /\ store[m].emails_sent_today < store[m].daily_send_limit
                        /\ store[m].connection_status = "successful" }
    IN  { m \in eligible :
             \A x \in eligible : store[m].emails_sent_today <= store[x].emails_sent_today }

OutreachSend ==
    \E m \in OutreachSenders(mailboxes), success \in BOOLEAN :
        /\ mailboxes[m].total_emails_sent < MaxEmails
        /\ mailboxes' =
              IF success
              THEN [mailboxes EXCEPT
                      ![m] = Flush(@, [@ EXCEPT !.emails_sent_today = @ + 1,
                                                !.total_emails_sent = @ + 1], now)]
              ELSE mailboxes
        /\ prev' = mailboxes
        /\ last' = [NoLast EXCEPT
                      !.op = "outreach", !.mailbox_id = m, !.alerts_before = alerts,
                      !.sends = { [mb |-> m, by |-> "outreach",
                                   sent_before |-> mailboxes[m].emails_sent_today,
                                   limit |-> mailboxes[m].daily_send_limit,
                                   success |-> success] }]
        /\ UNCHANGED <<tables, sessions, config, now, warmup_emails, alerts>>

\* job_daily_count_reset: one UPDATE over every row of the mailbox table
DailyCountReset ==
    /\ mailboxes' = [m \in MB |->
                       [mailboxes[m] EXCEPT !.emails_sent_today = 0, !.updated_at = now]]
    /\ prev' = mailboxes
    /\ last' = [NoLast EXCEPT !.op = "count_reset", !.alerts_before = alerts]
    /\ UNCHANGED <<tables, sessions, config, now, warmup_emails, alerts>>

PeerCycleAll == RunPeerWarmupCycle(0)

\* the clock of the sending specification stops at midnight and half an hour
\* after it
TickSend ==
    \E d \in {30, MinutesPerDay - 30} :
        /\ (now + d) % MinutesPerDay \in {0, 30}
        /\ Tick(d)

----------------------------------------------------------------------------
(* Specification SpecSend: warming, recovering, cold-ready and paused       *)
(* mailboxes under the peer cycle, the auto-reply cycle, outreach and the   *)
(* daily reset                                                              *)

SendConfig ==
    [ShortConfig EXCEPT !.phase_1_days = 1, !.total_days = 1,
                        !.phase_1_min_emails = 1, !.phase_1_max_emails = 1,
                        !.peer_max_emails_per_pair = 1]

SendStart == (MaxNowDays - 1) * MinutesPerDay

SendConfigs ==
    { SendConfig,
      [SendConfig EXCEPT !.skip_weekends = FALSE, !.peer_max_emails_per_pair = 3],
      [SendConfig EXCEPT !.peer_max_emails_per_pair = 0] }

WarmingMailbox ==
    [ConnectedMailbox(0) EXCEPT !.warmup_status = "warming_up",
                                !.warmup_started_at = 0,
                                !.warmup_days_completed = 1,
                                !.daily_send_limit = 1]

SendSubjects ==
    { WarmingMailbox,
      [WarmingMailbox EXCEPT !.connection_status = "failed"],
      [WarmingMailbox EXCEPT !.warmup_status = "recovering",
                             !.auto_recovery_started_at = 0,
                             !.warmup_days_completed = 0,
                             !.daily_send_limit = 2],
      [WarmingMailbox EXCEPT !.warmup_status = "cold_ready",
                             !.warmup_completed_at = 0],
      [WarmingMailbox EXCEPT !.warmup_status = "paused"] }

InitSend ==
    /\ config \in SendConfigs
    /\ now = SendStart
    /\ \E first \in SendSubjects :
          mailboxes = [m \in MB |-> IF m = 1 THEN first ELSE WarmingMailbox]
    /\ warmup_emails = <<>>
    /\ alerts = EmptyBag
    /\ EmptyTables
    /\ sessions = NoSessions
    /\ prev = mailboxes
    /\ last = NoLast

NextSend ==
    \/ PeerCycleAll
    \/ RunAutoReplyCycle
    \/ OutreachSend
    \/ DailyCountReset
    \/ TickSend

SpecSend == InitSend /\ [][NextSend]_vars

\* C4: no component sends an email from a mailbox, incrementing its
\* emails_sent_today, whose emails_sent_today had reached its
\* daily_send_limit at the moment of the send decision.
C4_NoSendAtOrOverLimit ==
    \A d \in last.sends : d.success => d.sent_before < d.limit

----------------------------------------------------------------------------
(* Specification SpecPeers: peer selection asked of every store of          *)
(* mailboxes in every status, active or not, connected or not               *)

PeerConfigs ==
    { [DefaultConfig EXCEPT !.peer_max_emails_per_pair = k] : k \in {0, 1, 3} }

PeerSubjects ==
    { [ConnectedMailbox(0) EXCEPT !.warmup_status = st,
                                  !.is_active = act,
                                  !.connection_status = conn] :
        st \in {"inactive", "warming_up", "recovering", "active", "paused"},
        act \in BOOLEAN,
        conn \in {"successful", "failed", "untested"} }

InitPeers ==
    /\ config \in PeerConfigs
    /\ now = 0
    /\ mailboxes \in [MB -> PeerSubjects]
    /\ warmup_emails = <<>>
    /\ alerts = EmptyBag
    /\ EmptyTables
    /\ sessions = NoSessions
    /\ prev = mailboxes
    /\ last = NoLast

\* get_peer_pairs(db, mailbox) for a sender and one outcome of the shuffle
SelectPeers ==
    \E m \in MB : \E ps \in get_peer_pairs(mailboxes, m, config) :
        /\ prev' = mailboxes
        /\ last' = [NoLast EXCEPT !.op = "get_peer_pairs", !.mailbox_id = m,
                                  !.peers = [x \in MB |-> IF x = m THEN ps ELSE <<>>]]
        /\ UNCHANGED <<tables, sessions, mailboxes, config, now, warmup_emails, alerts>>

NextPeers == SelectPeers

SpecPeers == InitPeers /\ [][NextPeers]_vars

\* C5: every peer returned by get_peer_pairs for a sender is another mailbox
\* than the sender, is connected with connection_status "successful", is
\* active and is WARMING_UP or RECOVERING; no peer is returned twice and at
\* most warmup_peer_max_emails_per_pair peers are returned.
C5_PeersEligibleAndCapped ==
    last.op = "get_peer_pairs" =>
        LET ps == last.peers[last.mailbox_id]
        IN  /\ \A i \in 1..Len(ps) :
                  /\ ps[i] # last.mailbox_id
                  /\ mailboxes[ps[i]].connection_status = "successful"
                  /\ mailboxes[ps[i]].is_active
                  /\ mailboxes[ps[i]].warmup_status \in {"warming_up", "recovering"}
            /\ \A i, j \in 1..Len(ps) : i # j => ps[i] # ps[j]
            /\ Len(ps) <= config.peer_max_emails_per_pair

\* a peer was returned to a sender that is itself an eligible peer
C5_Witness ==
    /\ last.op = "get_peer_pairs"
    /\ Len(last.peers[last.mailbox_id]) > 0
    /\ last.mailbox_id \in PeerCandidates(mailboxes, 0)

----------------------------------------------------------------------------
(* Specification SpecAdvance: advance_recovery applied to mailboxes of      *)
(* several statuses, limits and day counts under several ramp factors       *)

\* ramp factors in hundredths: -1.0, 0, 0.5, 1.0, 1.5 and 3.0
RampFactors == {-100, 0, 50, 100, 150, 300}

AdvanceConfigs ==
    { [DefaultConfig EXCEPT !.recovery_ramp_factor = f] : f \in RampFactors }

AdvanceSubjects ==
    { [ConnectedMailbox(0) EXCEPT !.warmup_status = st,
                                  !.auto_recovery_started_at =
                                      IF st = "recovering" THEN 0 ELSE None,
                                  !.daily_send_limit = l,
                                  !.warmup_days_completed = d] :
        st \in {"recovering", "warming_up", "paused", "active"},
        l \in {0, 2, 8, 16, 17, 24, 25, 35, 40},
        d \in {0, 5, 6, 7} }

InitAdvance ==
    /\ config \in AdvanceConfigs
    /\ now = MinutesPerDay
    /\ \E first \in AdvanceSubjects :
          mailboxes = [m \in MB |-> IF m = 1 THEN first
                                    ELSE [ConnectedMailbox(0) EXCEPT
                                            !.warmup_status = "paused"]]
    /\ warmup_emails = <<>>
    /\ alerts = EmptyBag
    /\ EmptyTables
    /\ sessions = NoSessions
    /\ prev = mailboxes
    /\ last = NoLast

\* advance_recovery(mailbox, db) on one mailbox
AdvanceRecovery ==
    \E m \in MB :
        LET after == advance_recovery(mailboxes[m], config)
            completes == /\ mailboxes[m].warmup_status = "recovering"
                         /\ after.warmup_status = "warming_up"
            added == IF completes
                     THEN SetToBag({RecoveryAlert(m, "recovery_complete")})
                     ELSE EmptyBag
        IN  /\ mailboxes[m].warmup_status = "recovering"
                  => mailboxes[m].warmup_days_completed < MaxRecoveryDays
            /\ BagCardinality(alerts) + BagCardinality(added) <= MaxAlerts
            /\ mailboxes' = [mailboxes EXCEPT ![m] = Flush(mailboxes[m], after, now)]
            /\ alerts' = alerts (+) added
            /\ prev' = mailboxes
            /\ last' = [NoLast EXCEPT
                          !.op = "advance_recovery", !.mailbox_id = m,
                          !.advanced = IF mailboxes[m].warmup_status = "recovering"
                                       THEN {m} ELSE {},
                          !.completed = IF completes THEN {m} ELSE {},
                          !.alerts_before = alerts, !.new_alerts = added]
            /\ UNCHANGED <<tables, sessions, config, now, warmup_emails>>

NextAdvance == AdvanceRecovery

SpecAdvance == InitAdvance /\ [][NextAdvance]_vars

\* C11: an advance of a RECOVERING mailbox adds exactly 1 to
\* warmup_days_completed and leaves daily_send_limit within [2, 35]; the
\* mailbox becomes WARMING_UP, with one completion alert and
\* auto_recovery_started_at cleared, exactly when afterwards
\* daily_send_limit >= 25 and warmup_days_completed >= 7, and otherwise stays
\* RECOVERING with no alert; an advance of a mailbox that is not RECOVERING
\* changes nothing; no other mailbox changes.
C11_AdvanceStep ==
    last.op = "advance_recovery" =>
        LET m == last.mailbox_id
            p == prev[m]
            c == mailboxes[m]
            done == c.daily_send_limit >= 25 /\ c.warmup_days_completed >= 7
        IN  /\ \A x \in MB \ {m} : mailboxes[x] = prev[x]
            /\ alerts = last.alerts_before (+) last.new_alerts
            /\ p.warmup_status # "recovering"
                  => c = p /\ last.new_alerts = EmptyBag
            /\ p.warmup_status = "recovering"
                  => /\ c.warmup_days_completed = p.warmup_days_completed + 1
                     /\ c.daily_send_limit >= 2 /\ c.daily_send_limit <= 35
                     /\ c.warmup_status \in {"recovering", "warming_up"}
                     /\ (c.warmup_status = "warming_up") <=> done
                     /\ done => /\ c.auto_recovery_started_at = None
                                /\ last.new_alerts =
                                     SetToBag({RecoveryAlert(m, "recovery_complete")})
                     /\ ~done => /\ c.auto_recovery_started_at = p.auto_recovery_started_at
                                 /\ last.new_alerts = EmptyBag

\* an advance has just completed a recovery on its seventh day
C11_Witness ==
    /\ last.op = "advance_recovery"
    /\ prev[last.mailbox_id].warmup_status = "recovering"
    /\ prev[last.mailbox_id].warmup_days_completed = 6
    /\ mailboxes[last.mailbox_id].warmup_status = "warming_up"
    /\ BagCardinality(last.new_alerts) = 1

\* C12: under the recovery check and the recovery-start operation, a mailbox
\* becomes RECOVERING only from PAUSED or BLACKLISTED, and when the recovery
\* check starts it the mailbox's last update is at least recovery_wait_days
\* days old.
C12_RecoveringOnlyFromPausedOrBlacklisted ==
    (last.op \in {"recovery_check", "start_recovery"}) =>
        \A m \in MB :
            (prev[m].warmup_status # "recovering"
                /\ mailboxes[m].warmup_status = "recovering")
            => /\ prev[m].warmup_status \in {"paused", "blacklisted"}
               /\ last.op = "recovery_check"
                     => /\ prev[m].updated_at # None
                        /\ DaysBetween(prev[m].updated_at, now)
                               >= config.recovery_wait_days

----------------------------------------------------------------------------
(* Blacklist monitor *)

DEFAULT_PROVIDERS ==
    << "zen.spamhaus.org", "bl.spamcop.net", "b.barracudacentral.org",
       "dnsbl.sorbs.net", "cbl.abuseat.org", "dnsbl-1.uceprotect.net" >>

ProviderIds == 1 .. Len(DEFAULT_PROVIDERS)

\* the lookups of one check: ip says whether the domain resolves, listing is
\* the set of providers that answer for the reversed address
BlacklistLookups(ip, listing) ==
    [p \in ProviderIds |-> IF ip THEN p \in listing ELSE FALSE]

\* mutant: the switch is not consulted
BlacklistAutoPause_IgnoreSwitch(mb, is_clean, cfg) ==
    IF ~is_clean /\ mb.warmup_status \notin {"paused", "blacklisted"}
    THEN [mb EXCEPT !.warmup_status = "blacklisted"]
    ELSE mb

BlacklistAutoPause(mb, is_clean, cfg) ==
    IF ~is_clean /\ cfg.auto_pause_on_blacklist
    THEN IF mb.warmup_status \notin {"paused", "blacklisted"}
         THEN [mb EXCEPT !.warmup_status = "blacklisted"]
         ELSE mb
    ELSE mb

run_blacklist_check(mailbox_id, mb, ip, listing, cfg, t) ==
    LET results == BlacklistLookups(ip, listing)
        total_checked == Len(results)
        total_listed == Cardinality({p \in ProviderIds : results[p]})
        is_clean == total_listed = 0
        bl_result == [ mailbox_id |-> mailbox_id, resolved |-> ip,
                       total_checked |-> total_checked,
                       total_listed |-> total_listed,
                       is_clean |-> is_clean, checked_at |-> t ]
        cached == Flush(mb, [mb EXCEPT !.is_blacklisted = ~is_clean,
                                       !.last_blacklist_check_at = t], t)
    IN  [ row |-> bl_result,
          mailbox |-> Flush(cached, BlacklistAutoPause(cached, is_clean, cfg), t) ]

\* the lookups the model draws: nothing listed, two providers, every provider
Listings == { {}, {1, 2}, ProviderIds }

\* the checks of either kind run so far
ChecksDone == Len(blacklist_check_results) + Len(dns_check_results)

\* the record validity of SPF, DKIM and DMARC the model draws
DnsOutcomes == { <<TRUE, TRUE, TRUE>>, <<TRUE, FALSE, FALSE>>, <<FALSE, FALSE, FALSE>> }

\* an id no mailbox has
UnknownMailbox == NumMailboxes + 1

\* POST /warmup/blacklist-check for mailbox m, with the lookups drawn
BlacklistCheckOf(m, ip, listing) ==
    LET out == run_blacklist_check(m, mailboxes[m], ip, listing, config, now)
    IN  /\ ChecksDone < MaxChecks
        \* a domain that does not resolve has no lookups to draw
        /\ ~ip => listing = {}
        /\ IF m \in MB
           THEN /\ mailboxes' = [mailboxes EXCEPT ![m] = out.mailbox]
                /\ blacklist_check_results' =
                      Append(blacklist_check_results, out.row)
           ELSE UNCHANGED <<mailboxes, blacklist_check_results>>
        /\ prev' = mailboxes
        /\ last' = [NoLast EXCEPT
                      !.op = "blacklist_check", !.mailbox_id = m,
                      !.details = [ip |-> ip, listing |-> listing],
                      !.alerts_before = alerts, !.tables_before = tables]
        /\ UNCHANGED <<config, now, warmup_emails, alerts,
                       dns_check_results, warmup_daily_logs, sessions>>

RunBlacklistCheck ==
    \E m \in MB \cup {UnknownMailbox}, ip \in BOOLEAN, listing \in Listings :
        BlacklistCheckOf(m, ip, listing)

----------------------------------------------------------------------------
(* Specification SpecBlacklist: blacklist checks over mailboxes of every    *)
(* status, with the auto-pause switch on and off                            *)

BlacklistConfigs ==
    { DefaultConfig, [DefaultConfig EXCEPT !.auto_pause_on_blacklist = FALSE] }

InitBlacklist ==
    /\ config \in BlacklistConfigs
    /\ now = MinutesPerDay
    /\ \E s \in WarmupStatus :
          mailboxes = [m \in MB |->
                         IF m = 1
                         THEN [ConnectedMailbox(0) EXCEPT !.warmup_status = s]
                         ELSE [ConnectedMailbox(0) EXCEPT !.warmup_status = "warming_up"]]
    /\ warmup_emails = <<>>
    /\ alerts = EmptyBag
    /\ EmptyTables
    /\ sessions = NoSessions
    /\ prev = mailboxes
    /\ last = NoLast

NextBlacklist == RunBlacklistCheck

SpecBlacklist == InitBlacklist /\ [][NextBlacklist]_vars

\* C13: a blacklist check that finds a listing records is_clean = false and
\* sets is_blacklisted; the status becomes BLACKLISTED exactly when the switch
\* is on and the status before was neither PAUSED nor BLACKLISTED; in every
\* other case (clean check, switch off, PAUSED or BLACKLISTED before) the
\* status is the one before the check.
C13_BlacklistCheck ==
    (last.op = "blacklist_check" /\ last.mailbox_id \in MB) =>
        LET m == last.mailbox_id
            row == blacklist_check_results[Len(blacklist_check_results)]
            dirty == last.details.ip /\ last.details.listing # {}
            before == prev[m].warmup_status
            pauses == /\ dirty
                      /\ config.auto_pause_on_blacklist
                      /\ before \notin {"paused", "blacklisted"}
        IN  /\ row.mailbox_id = m
            /\ dirty => (~row.is_clean /\ mailboxes[m].is_blacklisted)
            /\ pauses => mailboxes[m].warmup_status = "blacklisted"
            /\ ~pauses => mailboxes[m].warmup_status = before

\* a check lists a warming mailbox on 2 of 6 providers with the switch on
C13_Witness ==
    /\ last.op = "blacklist_check"
    /\ last.mailbox_id \in MB
    /\ last.details.ip
    /\ last.details.listing = {1, 2}
    /\ config.auto_pause_on_blacklist
    /\ prev[last.mailbox_id].warmup_status = "warming_up"
    /\ mailboxes[last.mailbox_id].warmup_status = "blacklisted"
    /\ blacklist_check_results[Len(blacklist_check_results)].total_listed = 2
    /\ blacklist_check_results[Len(blacklist_check_results)].total_checked = 6

----------------------------------------------------------------------------
(* DNS health checker *)

calculate_dns_score(spf_valid, dkim_valid, dmarc_valid) ==
    (IF spf_valid THEN 35 ELSE 0) + (IF dkim_valid THEN 35 ELSE 0)
      + (IF dmarc_valid THEN 30 ELSE 0)

\* mutant: the cache keeps the best score seen
DnsCache_KeepBest(mb, score, t) ==
    [mb EXCEPT !.dns_score = Max(@, score), !.last_dns_check_at = t]

DnsCache(mb, score, t) ==
    [mb EXCEPT !.dns_score = score, !.last_dns_check_at = t]

run_dns_health_check(mailbox_id, mb, spf, dkim, dmarc, t) ==
    LET score == calculate_dns_score(spf, dkim, dmarc)
        result == [ mailbox_id |-> mailbox_id, spf_valid |-> spf,
                    dkim_valid |-> dkim, dmarc_valid |-> dmarc,
                    overall_score |-> score, checked_at |-> t ]
    IN  [ row |-> result, mailbox |-> Flush(mb, DnsCache(mb, score, t), t) ]

RunDnsHealthCheck ==
    \E m \in MB \cup {UnknownMailbox}, valid \in DnsOutcomes :
        LET spf == valid[1]
            dkim == valid[2]
            dmarc == valid[3]
            out == run_dns_health_check(m, mailboxes[m], spf, dkim, dmarc, now)
        IN  /\ ChecksDone < MaxChecks
            /\ IF m \in MB
               THEN /\ mailboxes' = [mailboxes EXCEPT ![m] = out.mailbox]
                    /\ dns_check_results' = Append(dns_check_results, out.row)
               ELSE UNCHANGED <<mailboxes, dns_check_results>>
            /\ prev' = mailboxes
            /\ last' = [NoLast EXCEPT
                          !.op = "dns_check", !.mailbox_id = m,
                          !.details = [spf |-> spf, dkim |-> dkim, dmarc |-> dmarc],
                          !.alerts_before = alerts, !.tables_before = tables]
            /\ UNCHANGED <<config, now, warmup_emails, alerts,
                           blacklist_check_results, warmup_daily_logs, sessions>>

----------------------------------------------------------------------------
(* Specification SpecChecks: DNS checks and blacklist checks in any order   *)

InitChecks ==
    /\ config = DefaultConfig
    /\ now = MinutesPerDay
    /\ \E s \in {"warming_up", "paused"} :
          mailboxes = [m \in MB |->
                         IF m = 1
                         THEN [ConnectedMailbox(0) EXCEPT !.warmup_status = s]
                         ELSE [ConnectedMailbox(0) EXCEPT !.warmup_status = "active"]]
    /\ warmup_emails = <<>>
    /\ alerts = EmptyBag
    /\ EmptyTables
    /\ sessions = NoSessions
    /\ prev = mailboxes
    /\ last = NoLast

NextChecks ==
    \/ RunBlacklistCheck
    \/ RunDnsHealthCheck

SpecChecks == InitChecks /\ [][NextChecks]_vars

\* the rows of a table that belong to mailbox m, in id order
RowsOf(table, m) == SelectSeq(table, LAMBDA r : r.mailbox_id = m)

\* C14: every completed DNS or blacklist check adds exactly one row to its
\* own history and changes no earlier row; the cached dns_score is the
\* overall_score of the newest DNS row of the mailbox and the cached
\* is_blacklisted is the negation of is_clean of its newest blacklist row.
C14_HistoryAndCaches ==
    /\ (last.op = "blacklist_check" /\ last.mailbox_id \in MB) =>
          /\ Len(blacklist_check_results) = Len(last.tables_before[1]) + 1
          /\ SubSeq(blacklist_check_results, 1, Len(last.tables_before[1]))
                = last.tables_before[1]
          /\ dns_check_results = last.tables_before[2]
    /\ (last.op = "dns_check" /\ last.mailbox_id \in MB) =>
          /\ Len(dns_check_results) = Len(last.tables_before[2]) + 1
          /\ SubSeq(dns_check_results, 1, Len(last.tables_before[2]))
                = last.tables_before[2]
          /\ blacklist_check_results = last.tables_before[1]
    /\ \A m \in MB :
          LET dns == RowsOf(dns_check_results, m)
              bl == RowsOf(blacklist_check_results, m)
          IN  /\ dns # <<>> => mailboxes[m].dns_score = dns[Len(dns)].overall_score
              /\ bl # <<>> => mailboxes[m].is_blacklisted = ~bl[Len(bl)].is_clean

\* a mailbox whose second DNS check scored lower than its first, with a
\* dirty blacklist check in between
C14_Witness ==
    \E m \in MB :
        LET dns == RowsOf(dns_check_results, m)
            bl == RowsOf(blacklist_check_results, m)
        IN  /\ Len(dns) = 2
            /\ dns[2].overall_score < dns[1].overall_score
            /\ Len(bl) = 1
            /\ ~bl[1].is_clean
            /\ last.op = "dns_check"
            /\ mailboxes[m].dns_score = dns[2].overall_score
            /\ mailboxes[m].is_blacklisted

----------------------------------------------------------------------------
(* Daily log snapshot *)

\* date.today() at time t, as a day number
log_date(t) == t \div MinutesPerDay

\* mutant: the job never finds an existing row
HasDailyLog_Never(logs, m, today) == FALSE

\* the job's "existing" query
HasDailyLog(logs, m, today) ==
    \E i \in 1 .. Len(logs) : logs[i].mailbox_id = m /\ logs[i].log_date = today

\* the row the job builds; the rates are in hundredths of a percent
DailyLogRow(m, mb, cfg, t) ==
    LET health == calculate_health_score(mb, cfg, t)
        total_sent == mb.total_emails_sent
        day == mb.warmup_days_completed
    IN  [ mailbox_id |-> m, log_date |-> log_date(t),
          emails_sent |-> mb.emails_sent_today,
          emails_received |-> mb.warmup_emails_received,
          replies |-> mb.warmup_replies, bounces |-> mb.bounce_count,
          health_score |-> health.health_score,
          warmup_day |-> day,
          phase |-> IF day = 0 THEN 1 ELSE get_warmup_phase(day, cfg),
          daily_limit |-> mb.daily_send_limit,
          bounce_rate |-> IF total_sent > 0
                          THEN RoundHalfEven(10000 * mb.bounce_count, total_sent)
                          ELSE 0,
          reply_rate |-> IF total_sent > 0
                         THEN RoundHalfEven(10000 * mb.reply_count, total_sent)
                         ELSE 0,
          blacklisted |-> mb.is_blacklisted ]

\* the job's loop over the active mailboxes, from mailbox m on
RECURSIVE SnapshotLoop(_, _, _, _, _)
SnapshotLoop(logs, store, cfg, t, m) ==
    IF m > NumMailboxes THEN logs
    ELSE IF ~store[m].is_active \/ HasDailyLog(logs, m, log_date(t))
         THEN SnapshotLoop(logs, store, cfg, t, m + 1)
         ELSE SnapshotLoop(Append(logs, DailyLogRow(m, store[m], cfg, t)),
                           store, cfg, t, m + 1)

JobDailyLogSnapshot ==
    /\ warmup_daily_logs' = SnapshotLoop(warmup_daily_logs, mailboxes, config, now, 1)
    /\ prev' = mailboxes
    /\ last' = [NoLast EXCEPT !.op = "daily_log_snapshot",
                              !.alerts_before = alerts, !.tables_before = tables]
    /\ UNCHANGED <<mailboxes, config, now, warmup_emails, alerts,
                   blacklist_check_results, dns_check_results, sessions>>

\* the clock of the snapshot specification moves in half days
TickHalfDay == Tick(MinutesPerDay \div 2)

----------------------------------------------------------------------------
(* Specification SpecSnapshot: the snapshot job between outreach sends and  *)
(* half days                                                                *)

SnapshotSubjects ==
    { [ConnectedMailbox(0) EXCEPT !.warmup_status = "active",
                                  !.warmup_days_completed = 30],
      [ConnectedMailbox(0) EXCEPT !.warmup_status = "cold_ready",
                                  !.warmup_days_completed = 30,
                                  !.is_active = FALSE],
      [ConnectedMailbox(0) EXCEPT !.warmup_status = "warming_up",
                                  !.warmup_days_completed = 0] }

InitSnapshot ==
    /\ config = DefaultConfig
    /\ now = SendStart
    /\ \E first \in SnapshotSubjects :
          mailboxes = [m \in MB |->
                         IF m = 1 THEN first
                         ELSE [ConnectedMailbox(0) EXCEPT
                                 !.warmup_status = "cold_ready",
                                 !.warmup_days_completed = 30]]
    /\ warmup_emails = <<>>
    /\ alerts = EmptyBag
    /\ EmptyTables
    /\ sessions = NoSessions
    /\ prev = mailboxes
    /\ last = NoLast

NextSnapshot ==
    \/ JobDailyLogSnapshot
    \/ OutreachSend
    \/ TickHalfDay

SpecSnapshot == InitSnapshot /\ [][NextSnapshot]_vars

\* C15: the log holds at most one row per mailbox and date, and a snapshot
\* run keeps every row it found as it was, adding rows only for the active
\* mailboxes that had none for the day.
C15_OneLogPerMailboxAndDate ==
    /\ \A i, j \in 1 .. Len(warmup_daily_logs) :
          (/\ warmup_daily_logs[i].mailbox_id = warmup_daily_logs[j].mailbox_id
           /\ warmup_daily_logs[i].log_date = warmup_daily_logs[j].log_date)
             => i = j
    /\ last.op = "daily_log_snapshot" =>
          LET before == last.tables_before[3]
          IN  /\ Len(warmup_daily_logs) >= Len(before)
              /\ SubSeq(warmup_daily_logs, 1, Len(before)) = before
              /\ \A i \in Len(before) + 1 .. Len(warmup_daily_logs) :
                    /\ warmup_daily_logs[i].log_date = log_date(now)
                    /\ ~HasDailyLog(before, warmup_daily_logs[i].mailbox_id,
                                    log_date(now))

\* a second snapshot on the same day finds a mailbox whose emails_sent_today
\* moved since its row was written, and writes nothing
C15_Witness ==
    /\ last.op = "daily_log_snapshot"
    /\ warmup_daily_logs = last.tables_before[3]
    /\ \E i \in 1 .. Len(warmup_daily_logs) :
          LET row == warmup_daily_logs[i]
          IN  /\ row.log_date = log_date(now)
              /\ mailboxes[row.mailbox_id].is_active
              /\ mailboxes[row.mailbox_id].emails_sent_today # row.emails_sent

----------------------------------------------------------------------------
(* Specification SpecReply: peer cycles, auto-reply cycles and connection   *)
(* tests over two warming mailboxes                                         *)

\* test_mailbox_connection: the SMTP login succeeds or fails
TestMailboxConnection ==
    \E m \in MB, success \in BOOLEAN :
        /\ mailboxes' =
              [mailboxes EXCEPT
                 ![m] = Flush(@, [@ EXCEPT
                                    !.connection_status =
                                        IF success THEN "successful" ELSE "failed",
                                    !.last_connection_test_at = now], now)]
        /\ prev' = mailboxes
        /\ last' = [NoLast EXCEPT !.op = "test_connection", !.mailbox_id = m,
                                  !.alerts_before = alerts]
        /\ UNCHANGED <<tables, sessions, config, now, warmup_emails, alerts>>

NextReply ==
    \/ PeerCycleAll
    \/ RunAutoReplyCycle
    \/ TestMailboxConnection
    \/ TickSend

\* two connected warming mailboxes on a working day, up to three emails a pair
InitReply ==
    /\ config = [SendConfig EXCEPT !.skip_weekends = FALSE,
                                   !.peer_max_emails_per_pair = 3]
    /\ now = SendStart
    /\ mailboxes = [m \in MB |-> WarmingMailbox]
    /\ warmup_emails = <<>>
    /\ alerts = EmptyBag
    /\ EmptyTables
    /\ sessions = NoSessions
    /\ prev = mailboxes
    /\ last = NoLast

SpecReply == InitReply /\ [][NextReply]_vars

\* the reply rows created for row i
RepliesTo(i) ==
    { j \in 1 .. Len(warmup_emails) : warmup_emails[j].in_reply_to = i }

\* C16: every email has at most one reply row; it is REPLIED, with
\* replied_at set, exactly when it has one, and the reply goes from its
\* receiver to its sender; an auto-reply cycle replies only to rows that were
\* SENT, unreplied, with a receiver, and sent between min_delay minutes and
\* 24 hours before the cycle.
C16_RepliedAtMostOnce ==
    /\ \A i \in 1 .. Len(warmup_emails) :
          LET e == warmup_emails[i]
          IN  /\ Cardinality(RepliesTo(i)) <= 1
              /\ (e.status = "replied") <=> (Cardinality(RepliesTo(i)) = 1)
              /\ (e.status = "replied") <=> (e.replied_at # None)
              /\ \A j \in RepliesTo(i) :
                    /\ warmup_emails[j].sender_mailbox_id = e.receiver_mailbox_id
                    /\ warmup_emails[j].receiver_mailbox_id = e.sender_mailbox_id
    /\ last.op = "auto_reply" =>
          LET before == last.emails_before
              changed == { i \in 1 .. Len(before) : warmup_emails[i] # before[i] }
          IN  /\ \A i \in changed :
                    /\ before[i].status = "sent"
                    /\ before[i].replied_at = None
                    /\ before[i].receiver_mailbox_id # None
                    /\ before[i].sent_at <= now - config.auto_reply_min_delay
                    /\ before[i].sent_at >= now - MinutesPerDay
                    /\ warmup_emails[i].replied_at = now
              /\ \A j \in Len(before) + 1 .. Len(warmup_emails) :
                    warmup_emails[j].in_reply_to \in changed

\* a cycle runs over an email that an earlier cycle answered and that is
\* still young enough, and the email keeps its one reply
C16_Witness ==
    /\ last.op = "auto_reply"
    /\ config.auto_reply_enabled
    /\ ~should_skip_weekend(config, now)
    /\ \E i \in 1 .. Len(last.emails_before) :
          /\ last.emails_before[i].status = "replied"
          /\ last.emails_before[i].replied_at < now
          /\ i \in ReplyCandidates_AnyStatus(last.emails_before, config, now)
          /\ Cardinality(RepliesTo(i)) = 1


\* C17: a candidate of an auto-reply cycle is answered exactly when its rate
\* draw passes, its delay has elapsed, its receiver is active and connected
\* and the send succeeds, whatever happened to the candidates before it; a
\* candidate that is not answered keeps its row as it was, gets no reply row
\* and is a candidate again at any later time inside its 24-hour window; the
\* mailbox counters move by the answered candidates only.
C17_SkippedUnchanged ==
    last.op = "auto_reply" =>
        LET before == last.emails_before
            answered == last.replied
            passes(i) ==
                /\ last.details[i].rate <= config.auto_reply_rate
                /\ now - before[i].sent_at >= last.details[i].delay
                /\ prev[before[i].receiver_mailbox_id].is_active
                /\ prev[before[i].receiver_mailbox_id].connection_status = "successful"
                /\ last.details[i].success
            from(m) == Cardinality({ i \in answered : before[i].receiver_mailbox_id = m })
            to(m) == Cardinality({ i \in answered : before[i].sender_mailbox_id = m })
        IN  /\ answered \subseteq last.candidates
            /\ \A i \in last.candidates : (i \in answered) <=> passes(i)
            /\ \A i \in last.candidates \ answered :
                  /\ warmup_emails[i] = before[i]
                  /\ warmup_emails[i].status = "sent"
                  /\ warmup_emails[i].replied_at = None
                  /\ RepliesTo(i) = {}
                  /\ \A t \in {now, before[i].sent_at + MinutesPerDay} :
                        i \in { c \in 1 .. Len(warmup_emails) :
                                  /\ warmup_emails[c].status = "sent"
                                  /\ warmup_emails[c].replied_at = None
                                  /\ warmup_emails[c].receiver_mailbox_id # None
                                  /\ warmup_emails[c].sent_at
                                        <= t - config.auto_reply_min_delay
                                  /\ warmup_emails[c].sent_at >= t - MinutesPerDay }
            /\ Len(warmup_emails) = Len(before) + Cardinality(answered)
            /\ \A m \in MB :
                  /\ mailboxes[m].reply_count = prev[m].reply_count + to(m)
                  /\ mailboxes[m].warmup_replies = prev[m].warmup_replies + to(m)
                  /\ mailboxes[m].emails_sent_today = prev[m].emails_sent_today + from(m)
                  /\ mailboxes[m].total_emails_sent = prev[m].total_emails_sent + from(m)
                  /\ mailboxes[m].warmup_emails_sent = prev[m].warmup_emails_sent + from(m)
                  /\ mailboxes[m].warmup_emails_received = prev[m].warmup_emails_received
                  /\ mailboxes[m].bounce_count = prev[m].bounce_count
                  /\ mailboxes[m].complaint_count = prev[m].complaint_count

\* a cycle leaves its first candidate, whose receiver lost its connection,
\* unanswered and answers a later one
C17_Witness ==
    /\ last.op = "auto_reply"
    /\ \E i, j \in last.candidates :
          /\ i < j
          /\ i \notin last.replied
          /\ prev[last.emails_before[i].receiver_mailbox_id].connection_status = "failed"
          /\ warmup_emails[i] = last.emails_before[i]
          /\ j \in last.replied

----------------------------------------------------------------------------
(* Specification SpecJob: assessment runs in which some assessments raise   *)
(* and in which a statement outside the loop raises                         *)

Faults ==
    { f \in [ outside : {"none", "job_insert", "load_config", "select", "final_commit"},
              raising : SUBSET MB,
              recorded : BOOLEAN ] :
        \* what the run never reads is left at one value
        /\ f.outside \in {"none", "job_insert"} => f.recorded
        /\ f.outside \in {"job_insert", "load_config", "select"} => f.raising = {} }

RunFaultyAssessment ==
    \E mailbox_id \in {0} \cup MB, fault \in Faults :
        RunWarmupAssessmentWith(mailbox_id, fault)

JobSubjects ==
    { ConnectedMailbox(0),
      [ConnectedMailbox(0) EXCEPT !.warmup_status = "warming_up",
                                  !.warmup_started_at = 0],
      [ConnectedMailbox(0) EXCEPT !.connection_status = "failed"],
      [ConnectedMailbox(0) EXCEPT !.is_active = FALSE] }

InitJob ==
    /\ config = ShortConfig
    /\ now = MinutesPerDay
    /\ mailboxes \in [MB -> JobSubjects]
    /\ warmup_emails = <<>>
    /\ alerts = EmptyBag
    /\ EmptyTables
    /\ sessions = NoSessions
    /\ prev = mailboxes
    /\ last = NoLast

NextJob == RunFaultyAssessment

SpecJob == InitJob /\ [][NextJob]_vars

\* C18: a run in which nothing outside the loop raises ends COMPLETED with
\* assessed + errors = the number of selected mailboxes, every selected
\* mailbox whose assessment did not raise being assessed; a run in which a
\* statement outside the loop raises, and only such a run, has its stored job
\* row FAILED with an error message; no run leaves its job row RUNNING.
C18_JobRunRecord ==
    last.op = "assess" =>
        LET sel == AssessSelection(prev, last.mailbox_id)
        IN  /\ last.fault.outside = "none" =>
                  /\ last.job.status = "completed"
                  /\ last.job.assessed + last.job.errors = Cardinality(sel)
                  /\ last.job.errors = Cardinality(sel \cap last.fault.raising)
                  /\ \A m \in sel \ last.fault.raising :
                        /\ last.details[m].mailbox_id = m
                        /\ last.details[m].action.kind # "error"
                        /\ mailboxes[m] =
                              Flush(prev[m],
                                    assess_mailbox(m, prev[m], config, now).mailbox, now)
            /\ last.job.status = "failed" =>
                  (last.fault.outside # "none" /\ last.job.error_message)
            /\ (last.fault.outside # "none" /\ last.job.status # "absent") =>
                  last.job.status = "failed"
            /\ last.job.status # "running"

----------------------------------------------------------------------------
(* Overlapping operations: every cycle works in a session of its own, which *)
(* loads rows, changes its copies while it sends, and writes the changed    *)
(* columns back when it commits                                             *)

Sessions == 1 .. NumSessions

\* loaded: the rows as the session read them; rows: its copies; tried: the
\* sends it has attempted; pending: the warmup_emails rows it will insert;
\* sent and today (history): its successful sends from each mailbox, in all
\* and since the last daily reset
IdleSession ==
    [ op |-> "idle", loaded |-> <<>>, rows |-> <<>>, candidates |-> {},
      tried |-> {}, answered |-> {}, pending |-> <<>>,
      sent |-> [m \in MB |-> 0], today |-> [m \in MB |-> 0] ]

PendingRows == SumOver([s \in Sessions |-> Len(sessions[s].pending)], Sessions)

\* the UPDATE a commit issues for one row: the columns the session changed
\* get the session's values, the others keep what the table holds
WriteBack(stored, loaded, row, t) ==
    IF row = loaded THEN stored
    ELSE [c \in DOMAIN stored |->
            IF c = "updated_at" THEN t
            ELSE IF row[c] # loaded[c] THEN row[c]
            ELSE stored[c]]

\* run_peer_warmup_cycle up to its mailbox query
PeerLoad(s) ==
    /\ sessions[s].op = "idle"
    /\ sessions' =
          [sessions EXCEPT
             ![s] = IF should_skip_weekend(config, now) \/ ~config.peer_enabled
                    THEN [@ EXCEPT !.op = "done"]
                    ELSE [@ EXCEPT !.op = "peer", !.loaded = mailboxes,
                                   !.rows = mailboxes]]
    /\ prev' = mailboxes
    /\ last' = [NoLast EXCEPT !.op = "peer_load", !.mailbox_id = s]
    /\ UNCHANGED <<tables, mailboxes, config, now, warmup_emails, alerts>>

\* one pass of the inner loop of run_peer_warmup_cycle
PeerSendStep(s) ==
    /\ sessions[s].op = "peer"
    /\ Len(warmup_emails) + PendingRows < MaxEmails
    /\ \E m \in PeerSenders(sessions[s].rows, 0), success \in BOOLEAN :
          \E p \in PeerCandidates(sessions[s].rows, m) :
             LET rows == sessions[s].rows
                 counted == [rows EXCEPT
                               ![m].emails_sent_today = @ + 1,
                               ![m].total_emails_sent = @ + 1,
                               ![m].warmup_emails_sent = @ + 1,
                               ![p].warmup_emails_received = @ + 1]
             IN  /\ <<m, p>> \notin sessions[s].tried
                 /\ rows[m].emails_sent_today < rows[m].daily_send_limit
                 /\ sessions' =
                       [sessions EXCEPT
                          ![s].tried = @ \cup {<<m, p>>},
                          ![s].pending = Append(@, NewWarmupEmail(m, p, success, now, 0)),
                          ![s].rows = IF success THEN counted ELSE @,
                          ![s].sent[m] = IF success THEN @ + 1 ELSE @,
                          ![s].today[m] = IF success THEN @ + 1 ELSE @]
    /\ prev' = mailboxes
    /\ last' = [NoLast EXCEPT !.op = "peer_send", !.mailbox_id = s]
    /\ UNCHANGED <<tables, mailboxes, config, now, warmup_emails, alerts>>

\* run_auto_reply_cycle up to its candidate query
ReplyLoad(s) ==
    /\ sessions[s].op = "idle"
    /\ sessions' =
          [sessions EXCEPT
             ![s] = IF should_skip_weekend(config, now) \/ ~config.auto_reply_enabled
                    THEN [@ EXCEPT !.op = "done"]
                    ELSE [@ EXCEPT !.op = "reply", !.loaded = mailboxes,
                                   !.rows = mailboxes,
                                   !.candidates =
                                       ReplyCandidates(warmup_emails, config, now)]]
    /\ prev' = mailboxes
    /\ last' = [NoLast EXCEPT !.op = "reply_load", !.mailbox_id = s]
    /\ UNCHANGED <<tables, mailboxes, config, now, warmup_emails, alerts>>

\* one pass of the loop of run_auto_reply_cycle
ReplySendStep(s) ==
    /\ sessions[s].op = "reply"
    /\ Len(warmup_emails) + PendingRows < MaxEmails
    /\ \E i \in sessions[s].candidates \ sessions[s].tried, draw \in ReplyDraws(config) :
          LET rows == sessions[s].rows
              r == warmup_emails[i].receiver_mailbox_id
              x == warmup_emails[i].sender_mailbox_id
              counted == [rows EXCEPT
                            ![x].reply_count = @ + 1,
                            ![x].warmup_replies = @ + 1,
                            ![r].emails_sent_today = @ + 1,
                            ![r].total_emails_sent = @ + 1,
                            ![r].warmup_emails_sent = @ + 1]
              answers == /\ ReplyAttempted(rows, warmup_emails[i], draw, config, now)
                         /\ draw.success
          IN  sessions' =
                 [sessions EXCEPT
                    ![s].tried = @ \cup {i},
                    ![s].answered = IF answers THEN @ \cup {i} ELSE @,
                    ![s].pending = IF answers
                                   THEN Append(@, NewWarmupEmail(r, x, TRUE, now, i))
                                   ELSE @,
                    ![s].rows = IF answers THEN counted ELSE @,
                    ![s].sent[r] = IF answers THEN @ + 1 ELSE @,
                    ![s].today[r] = IF answers THEN @ + 1 ELSE @]
    /\ prev' = mailboxes
    /\ last' = [NoLast EXCEPT !.op = "reply_send", !.mailbox_id = s]
    /\ UNCHANGED <<tables, mailboxes, config, now, warmup_emails, alerts>>

\* the db.commit() that ends either cycle
SessionCommit(s) ==
    /\ sessions[s].op \in {"peer", "reply"}
    /\ mailboxes' = [m \in MB |->
                       WriteBack(mailboxes[m], sessions[s].loaded[m],
                                 sessions[s].rows[m], now)]
    /\ warmup_emails' =
          [i \in 1 .. Len(warmup_emails) |->
             IF i \in sessions[s].answered
             THEN [warmup_emails[i] EXCEPT !.status = "replied", !.replied_at = now]
             ELSE warmup_emails[i]]
          \o sessions[s].pending
    /\ sessions' = [sessions EXCEPT ![s].op = "done"]
    /\ prev' = mailboxes
    /\ last' = [NoLast EXCEPT !.op = "commit", !.mailbox_id = s,
                               !.emails_before = warmup_emails]
    /\ UNCHANGED <<tables, config, now, alerts>>

\* job_daily_count_reset while sessions are open
ResetDuringSessions ==
    /\ mailboxes' = [m \in MB |->
                       [mailboxes[m] EXCEPT !.emails_sent_today = 0, !.updated_at = now]]
    /\ sessions' = [s \in Sessions |->
                      [sessions[s] EXCEPT !.today = [m \in MB |-> 0]]]
    /\ prev' = mailboxes
    /\ last' = [NoLast EXCEPT !.op = "count_reset"]
    /\ UNCHANGED <<tables, config, now, warmup_emails, alerts>>

----------------------------------------------------------------------------
(* Specification SpecOverlap: two sessions and the daily reset over two     *)
(* warming mailboxes, one of which has an email to answer                   *)

OverlapStore ==
    [m \in MB |->
       IF m = 1
       THEN [WarmingMailbox EXCEPT !.daily_send_limit = 2,
                                   !.warmup_emails_received = 1]
       ELSE [WarmingMailbox EXCEPT !.daily_send_limit = 2,
                                   !.total_emails_sent = 1,
                                   !.warmup_emails_sent = 1]]

InitOverlap ==
    /\ config = [SendConfig EXCEPT !.skip_weekends = FALSE]
    /\ now = SendStart
    /\ mailboxes = OverlapStore
    /\ warmup_emails = <<NewWarmupEmail(2, 1, TRUE, SendStart - 30, 0)>>
    /\ alerts = EmptyBag
    /\ EmptyTables
    /\ sessions = [s \in Sessions |-> IdleSession]
    /\ prev = mailboxes
    /\ last = NoLast

NextOverlap ==
    \/ \E s \in Sessions : PeerLoad(s)
    \/ \E s \in Sessions : PeerSendStep(s)
    \/ \E s \in Sessions : ReplyLoad(s)
    \/ \E s \in Sessions : ReplySendStep(s)
    \/ \E s \in Sessions : SessionCommit(s)
    \/ ResetDuringSessions

SpecOverlap == InitOverlap /\ [][NextOverlap]_vars

\* C19: once every session has finished, total_emails_sent of a mailbox has
\* grown by the successful sends the sessions made from it, and
\* emails_sent_today counts the successful sends made from it since the last
\* daily reset.
C19_NoLostUpdate ==
    (\A s \in Sessions : sessions[s].op \in {"idle", "done"}) =>
        \A m \in MB :
            /\ mailboxes[m].total_emails_sent =
                  OverlapStore[m].total_emails_sent
                    + SumOver([s \in Sessions |-> sessions[s].sent[m]], Sessions)
            /\ mailboxes[m].emails_sent_today =
                  SumOver([s \in Sessions |-> sessions[s].today[m]], Sessions)

----------------------------------------------------------------------------
(* Specification SpecSchedule: the phase / limit scheduler asked for every  *)
(* day under phases of 0 to MaxPhaseDays days                               *)

\* <<min_emails, max_emails>> of a phase
PhaseVolumes == { <<1, 1>>, <<2, 5>>, <<3, 4>>, <<5, 3>> }

ScheduleConfigs ==
    { [DefaultConfig EXCEPT
          !.phase_1_days = d[1], !.phase_2_days = d[2],
          !.phase_3_days = d[3], !.phase_4_days = d[4],
          !.phase_1_min_emails = a[1], !.phase_1_max_emails = a[2],
          !.phase_4_min_emails = b[1], !.phase_4_max_emails = b[2]] :
        d \in (0 .. MaxPhaseDays) \X (0 .. MaxPhaseDays)
                \X (0 .. MaxPhaseDays) \X (0 .. MaxPhaseDays),
        a \in PhaseVolumes, b \in PhaseVolumes }

\* the last day asked about: two days past the end of phase 4
MaxScheduleDay == 4 * MaxPhaseDays + 2

InitSchedule ==
    /\ config \in ScheduleConfigs
    /\ now = 0
    /\ mailboxes = [m \in MB |-> NewMailbox(0)]
    /\ warmup_emails = <<>>
    /\ alerts = EmptyBag
    /\ EmptyTables
    /\ sessions = NoSessions
    /\ prev = mailboxes
    /\ last = NoLast

\* build_warmup_schedule's question for one day
AskDailyLimit ==
    \E day \in 0 .. MaxScheduleDay :
        /\ last' = [NoLast EXCEPT
                      !.op = "daily_limit",
                      !.details = [day |-> day,
                                   phase |-> get_warmup_phase(day, config),
                                   limit |-> get_daily_limit_for_day(day, config)]]
        /\ prev' = mailboxes
        /\ UNCHANGED <<tables, sessions, mailboxes, config, now, warmup_emails, alerts>>

NextSchedule == AskDailyLimit

SpecSchedule == InitSchedule /\ [][NextSchedule]_vars

\* max_emails >= min_emails >= 1 in every phase
VolumesOrdered(cfg) ==
    \A p \in 1 .. 4 : PhaseMax(cfg, p) >= PhaseMin(cfg, p) /\ PhaseMin(cfg, p) >= 1

\* day d is one of the configured days of phase p
InPhaseRange(cfg, p, d) ==
    /\ d > PhaseStart(cfg, p)
    /\ d <= PhaseStart(cfg, p) + PhaseDays(cfg, p)

\* C20: under a configuration with max_emails >= min_emails >= 1 in each
\* phase, the limit of a day inside the day range of phase p lies between
\* min_emails(p) and max_emails(p) and is no lower than the limit of the day
\* before when that day is in the range too; a day that falls in a phase of
\* at most one day gets max_emails; every day past the end of phase 3 is in
\* phase 4.
C20_LimitWithinPhaseBounds ==
    (last.op = "daily_limit" /\ VolumesOrdered(config)) =>
        LET d == last.details.day
            limit == last.details.limit
            phase == last.details.phase
        IN  /\ \A p \in 1 .. 4 :
                  InPhaseRange(config, p, d) =>
                      /\ phase = p
                      /\ PhaseMin(config, p) <= limit
                      /\ limit <= PhaseMax(config, p)
                      /\ InPhaseRange(config, p, d - 1) =>
                            get_daily_limit_for_day(d - 1, config) <= limit
            /\ PhaseDays(config, phase) <= 1 => limit = PhaseMax(config, phase)
            /\ d > config.phase_1_days + config.phase_2_days + config.phase_3_days
                  => phase = 4

\* the middle day of a three-day phase 1 with 2 to 5 emails: 3.5 rounds to 4
C20_Witness ==
    /\ last.op = "daily_limit"
    /\ VolumesOrdered(config)
    /\ config.phase_1_days = 3
    /\ config.phase_1_min_emails = 2
    /\ config.phase_1_max_emails = 5
    /\ last.details.day = 2
    /\ last.details.phase = 1
    /\ last.details.limit = 4

----------------------------------------------------------------------------
(* Specification SpecHealth: the health score calculator over counters,     *)
(* ages, thresholds and weights drawn from the corner cases                 *)

\* <<total_emails_sent, bounce_count, reply_count, complaint_count>>: nothing
\* sent, counts above the number sent, rates below, between and above the
\* thresholds
HealthCounters == {0, 1, 3, 100} \X {0, 1, 3, 200} \X {0, 1, 200} \X {0, 1, 200}

\* account ages in days
HealthAges == {0, 45, 90, 200}

\* <<bounce_rate_good, bounce_rate_bad>>: the defaults, equal thresholds, both
\* zero, and good above bad
BounceThresholds == { <<2000, 5000>>, <<5000, 5000>>, <<0, 0>>, <<5000, 2000>> }

ReplyThresholds == {0, 10000}

ComplaintThresholds == {0, 100, 2000}

\* <<weight_bounce_rate, weight_reply_rate, weight_complaint_rate, weight_age>>
HealthWeights == { <<35, 25, 25, 15>>, <<0, 0, 0, 0>>, <<1, 0, 0, 0>>, <<0, 1, 1, 3>> }

HealthConfigs ==
    { [DefaultConfig EXCEPT
          !.bounce_rate_good = bt[1], !.bounce_rate_bad = bt[2],
          !.reply_rate_good = rg, !.complaint_rate_bad = cb,
          !.weight_bounce_rate = w[1], !.weight_reply_rate = w[2],
          !.weight_complaint_rate = w[3], !.weight_age = w[4]] :
        bt \in BounceThresholds, rg \in ReplyThresholds,
        cb \in ComplaintThresholds, w \in HealthWeights }

HealthSubjects(t) ==
    { [ConnectedMailbox(t - age * MinutesPerDay) EXCEPT
          !.total_emails_sent = ct[1], !.bounce_count = ct[2],
          !.reply_count = ct[3], !.complaint_count = ct[4]] :
        ct \in HealthCounters, age \in HealthAges }

InitHealth ==
    /\ config \in HealthConfigs
    /\ now = 200 * MinutesPerDay
    /\ \E first \in HealthSubjects(now) :
          mailboxes = [m \in MB |-> IF m = 1 THEN first ELSE ConnectedMailbox(0)]
    /\ warmup_emails = <<>>
    /\ alerts = EmptyBag
    /\ EmptyTables
    /\ sessions = NoSessions
    /\ prev = mailboxes
    /\ last = NoLast

\* GET /warmup/health-scores style read: the score of one mailbox is computed
\* and returned, nothing is stored
ScoreMailbox ==
    \E m \in MB :
        /\ last' = [NoLast EXCEPT !.op = "health_score", !.mailbox_id = m,
                      !.details = calculate_health_score(mailboxes[m], config, now)]
        /\ prev' = mailboxes
        /\ UNCHANGED <<tables, sessions, mailboxes, config, now, warmup_emails, alerts>>

NextHealth == ScoreMailbox

SpecHealth == InitHealth /\ [][NextHealth]_vars

TotalWeight(cfg) ==
    cfg.weight_bounce_rate + cfg.weight_reply_rate
      + cfg.weight_complaint_rate + cfg.weight_age

\* C21: for non-negative counters (nothing sent, counts above the number sent
\* included), a non-negative account age and non-negative weights and
\* thresholds (zero total weight and equal good / bad thresholds included),
\* calculate_health_score returns without a division by zero, health_score and
\* the four sub-scores lie in [0, 100], and a zero total weight gives
\* health_score 0.
C21_HealthScoreInRange ==
    last.op = "health_score" =>
        LET h == last.details
        IN  /\ ~h.division_fault
            /\ \A v \in {h.health_score, h.bounce_score, h.reply_score,
                         h.complaint_score, h.age_score} : v \in 0..1000
            /\ (TotalWeight(config) = 0 => h.health_score = 0)

\* a score strictly between 0 and 100 was computed with equal bounce
\* thresholds for a mailbox with more bounces than emails sent
C21_Witness ==
    /\ last.op = "health_score"
    /\ last.mailbox_id = 1
    /\ config.bounce_rate_good = config.bounce_rate_bad
    /\ mailboxes[1].bounce_count > mailboxes[1].total_emails_sent
    /\ mailboxes[1].total_emails_sent > 0
    /\ TotalWeight(config) > 0
    /\ last.details.bounce_score = 0
    /\ last.details.health_score \in 1..999

----------------------------------------------------------------------------
(* Specification SpecPaused: peer cycles and auto-reply cycles over two     *)
(* warming mailboxes that blacklist checks can take out of the warmup       *)

\* a blacklist check that finds a warming mailbox on every list
ListedCheck ==
    \E m \in MB :
        /\ mailboxes[m].warmup_status = "warming_up"
        /\ BlacklistCheckOf(m, TRUE, ProviderIds)

NextPaused ==
    \/ PeerCycleAll
    \/ RunAutoReplyCycle
    \/ ListedCheck
    \/ TickSend

SpecPaused == InitReply /\ [][NextPaused]_vars

\* the status suspends the mailbox
Suspended(mb) == mb.warmup_status \in {"paused", "blacklisted"}

\* C22: a peer-warmup cycle or auto-reply cycle sends no message from a
\* mailbox that is PAUSED or BLACKLISTED and does not increment its
\* emails_sent_today, total_emails_sent or warmup_emails_sent.
C22_SuspendedNeverSends ==
    last.op \in {"peer_cycle", "auto_reply"} =>
        \A m \in MB :
            Suspended(prev[m]) =>
                /\ ~ \E d \in last.sends : d.mb = m /\ d.success
                /\ mailboxes[m].emails_sent_today = prev[m].emails_sent_today
                /\ mailboxes[m].total_emails_sent = prev[m].total_emails_sent
                /\ mailboxes[m].warmup_emails_sent = prev[m].warmup_emails_sent

\* the peer-cycle half of C22 on its own
PeerCycleSparesSuspended ==
    last.op = "peer_cycle" =>
        \A m \in MB :
            Suspended(prev[m]) =>
                /\ ~ \E d \in last.sends : d.mb = m
                /\ mailboxes[m].emails_sent_today = prev[m].emails_sent_today
                /\ mailboxes[m].total_emails_sent = prev[m].total_emails_sent
                /\ mailboxes[m].warmup_emails_sent = prev[m].warmup_emails_sent

----------------------------------------------------------------------------
(* Specification SpecRamp: a new mailbox under the daily assessment job,    *)
(* one run a day, from INACTIVE to the end of the warmup and beyond         *)

MaxRampDays == 6

\* warmups of no, one, two and three days, promotion after one day or at once
RampConfigs ==
    { [ShortConfig EXCEPT !.total_days = td, !.active_min_days = amd] :
        td \in 0..3, amd \in {0, 1} }

\* <<total_emails_sent, bounce_count, complaint_count, reply_count>> of
\* mailboxes the auto-pause check lets through
HealthyMetrics == { <<0, 0, 0, 0>>, <<9, 1, 0, 2>>, <<100, 0, 0, 20>> }

RampSubjects ==
    { [ConnectedMailbox(0) EXCEPT
          !.total_emails_sent = mt[1], !.bounce_count = mt[2],
          !.complaint_count = mt[3], !.reply_count = mt[4]] :
        mt \in HealthyMetrics }

InitRamp ==
    /\ config \in RampConfigs
    /\ now \in {0, 600}
    /\ mailboxes \in {f \in [MB -> RampSubjects] :
                        \A m \in MB : m > 1 => f[m] = ConnectedMailbox(0)}
    /\ warmup_emails = <<>>
    /\ alerts = EmptyBag
    /\ EmptyTables
    /\ sessions = NoSessions
    /\ prev = mailboxes
    /\ last = NoLast

\* job_daily_assessment, or the endpoint for the first mailbox: the run of the day
DailyAssessment ==
    /\ last.op # "assess"
    /\ \E id \in {0, 1} : RunWarmupAssessment(id)

\* the next day's run is a day later
NextRampDay ==
    /\ last.op = "assess"
    /\ DaysBetween(0, now) < MaxRampDays
    /\ now' = now + MinutesPerDay
    /\ prev' = mailboxes
    /\ last' = [NoLast EXCEPT !.op = "tick", !.alerts_before = alerts]
    /\ UNCHANGED <<tables, sessions, mailboxes, config, warmup_emails, alerts>>

NextRamp == DailyAssessment \/ NextRampDay

SpecRamp == InitRamp /\ [][NextRamp]_vars

\* the assessments of mailbox m that followed the one that started its warmup
AssessmentsSinceStart(m) == DaysBetween(mailboxes[m].warmup_started_at, now)

\* C23: a mailbox that entered WARMING_UP from INACTIVE (warmup_days_completed
\* = 0) and is assessed again and again without auto-pause, blacklisting,
\* recovery or manual change is WARMING_UP after each of the first total_days
\* following assessments, the k-th of which sets daily_send_limit to
\* get_daily_limit_for_day(k) with k = completed + 1 and completes day k; the
\* (total_days + 1)-th makes it COLD_READY with warmup_days_completed =
\* total_days and warmup_completed_at recorded.
C23_ColdReadyAfterTotalDays ==
    \* every run of SpecRamp assesses the first mailbox
    \A m \in {1} :
        (Assessed(m) /\ mailboxes[m].warmup_started_at # None) =>
            LET k == AssessmentsSinceStart(m)
                c == mailboxes[m]
                p == prev[m]
            IN  /\ k = 0 => (c.warmup_status = "warming_up" /\ c.warmup_days_completed = 0)
                /\ (k >= 1 /\ k <= config.total_days)
                      => /\ c.warmup_status = "warming_up"
                         /\ k = p.warmup_days_completed + 1
                         /\ c.warmup_days_completed = k
                         /\ c.daily_send_limit = get_daily_limit_for_day(k, config)
                         /\ c.warmup_completed_at = None
                /\ k = config.total_days + 1
                      => /\ p.warmup_status = "warming_up"
                         /\ c.warmup_status = "cold_ready"
                         /\ c.warmup_days_completed = config.total_days
                         /\ c.warmup_completed_at = now
                /\ k > config.total_days + 1
                      => c.warmup_status \in {"cold_ready", "active"}

\* the fourth assessment after the start of a three-day warmup has just made
\* the mailbox COLD_READY
C23_Witness ==
    /\ config.total_days = 3
    /\ Assessed(1)
    /\ AssessmentsSinceStart(1) = 4
    /\ prev[1].warmup_status = "warming_up"
    /\ prev[1].warmup_days_completed = 3
    /\ mailboxes[1].warmup_status = "cold_ready"
    /\ mailboxes[1].warmup_completed_at = now

----------------------------------------------------------------------------
(* Specification SpecCounters: peer cycles and auto-reply cycles, one after *)
(* another, from zeroed counters and an empty warmup_emails table           *)

NextCounters ==
    \/ PeerCycleAll
    \/ RunAutoReplyCycle
    \/ TickSend

\* two connected warming mailboxes on a working day, one peer each
InitCounters ==
    /\ config = [SendConfig EXCEPT !.skip_weekends = FALSE]
    /\ now = SendStart
    /\ mailboxes = [m \in MB |-> WarmingMailbox]
    /\ warmup_emails = <<>>
    /\ alerts = EmptyBag
    /\ EmptyTables
    /\ sessions = NoSessions
    /\ prev = mailboxes
    /\ last = NoLast

SpecCounters == InitCounters /\ [][NextCounters]_vars

\* the rows mailbox m sent that did not fail
DeliveredFrom(m) ==
    { i \in 1 .. Len(warmup_emails) :
         /\ warmup_emails[i].sender_mailbox_id = m
         /\ warmup_emails[i].status # "failed" }

\* the peer-cycle rows to mailbox m that did not fail
PeerDeliveredTo(m) ==
    { i \in 1 .. Len(warmup_emails) :
         /\ warmup_emails[i].receiver_mailbox_id = m
         /\ warmup_emails[i].in_reply_to = 0
         /\ warmup_emails[i].status # "failed" }

\* the rows mailbox m sent that were answered
AnsweredFrom(m) ==
    { i \in 1 .. Len(warmup_emails) :
         /\ warmup_emails[i].sender_mailbox_id = m
         /\ warmup_emails[i].status = "replied" }

\* C24: after any sequence of peer-warmup cycles and auto-reply cycles from
\* zeroed counters and no rows, warmup_emails_sent of every mailbox is the
\* number of its rows that are not FAILED and warmup_emails_received is the
\* number of peer-cycle rows to it that are not FAILED; a FAILED row counts in
\* no counter: the send counters and the reply counters are determined by the
\* rows that are not FAILED.
C24_CountersMatchRows ==
    \A m \in MB :
        /\ mailboxes[m].warmup_emails_sent = Cardinality(DeliveredFrom(m))
        /\ mailboxes[m].warmup_emails_received = Cardinality(PeerDeliveredTo(m))
        /\ mailboxes[m].total_emails_sent = Cardinality(DeliveredFrom(m))
        /\ mailboxes[m].emails_sent_today = Cardinality(DeliveredFrom(m))
        /\ mailboxes[m].reply_count = Cardinality(AnsweredFrom(m))
        /\ mailboxes[m].warmup_replies = Cardinality(AnsweredFrom(m))
        /\ mailboxes[m].bounce_count = 0
        /\ mailboxes[m].complaint_count = 0

\* a peer cycle has just failed to send from the first mailbox and left every
\* mailbox as it was, after an earlier cycle delivered an email from the
\* second mailbox to the first
C24_Witness ==
    /\ last.op = "peer_cycle"
    /\ \E i \in 1 .. Len(warmup_emails) :
          /\ warmup_emails[i].status = "failed"
          /\ warmup_emails[i].sender_mailbox_id = 1
          /\ warmup_emails[i].sent_at = now
    /\ mailboxes = prev
    /\ mailboxes[2].warmup_emails_sent = 1
    /\ mailboxes[1].warmup_emails_received = 1

----------------------------------------------------------------------------
(* Tracking callbacks: GET /t/{tracking_id}/px.gif and /t/{tracking_id}/l   *)

\* the tracking_id of row i is unique; token 0 is one that no row has
TrackingTokens == 0 .. MaxEmails

\* the row after record_open
Opened(email, t) ==
    IF email.opened_at = None
    THEN [email EXCEPT !.opened_at = t,
                       !.status = IF @ = "sent" THEN "opened" ELSE @]
    ELSE email

\* the row after record_click
Clicked(email, t) ==
    IF email.opened_at = None THEN [email EXCEPT !.opened_at = t] ELSE email

RecordOpen ==
    \E token \in TrackingTokens :
        /\ warmup_emails' =
              IF token \in 1 .. Len(warmup_emails)
              THEN [warmup_emails EXCEPT ![token] = Opened(@, now)]
              ELSE warmup_emails
        /\ prev' = mailboxes
        /\ last' = [NoLast EXCEPT !.op = "record_open", !.mailbox_id = token,
                                  !.emails_before = warmup_emails]
        /\ UNCHANGED <<tables, sessions, mailboxes, config, now, alerts>>

RecordClick ==
    \E token \in TrackingTokens :
        /\ warmup_emails' =
              IF token \in 1 .. Len(warmup_emails)
              THEN [warmup_emails EXCEPT ![token] = Clicked(@, now)]
              ELSE warmup_emails
        /\ prev' = mailboxes
        /\ last' = [NoLast EXCEPT !.op = "record_click", !.mailbox_id = token,
                                  !.emails_before = warmup_emails]
        /\ UNCHANGED <<tables, sessions, mailboxes, config, now, alerts>>

----------------------------------------------------------------------------
(* Specification SpecTracking: tracking callbacks arriving while an         *)
(* auto-reply cycle works through its candidates in a session of its own    *)

\* an email delivered half an hour ago from the second mailbox to the first,
\* and one from the first mailbox that failed
InitTracking ==
    /\ config = [SendConfig EXCEPT !.skip_weekends = FALSE]
    /\ now = SendStart
    /\ mailboxes = OverlapStore
    /\ warmup_emails = << NewWarmupEmail(2, 1, TRUE, SendStart - 30, 0),
                          NewWarmupEmail(1, 2, FALSE, SendStart - 30, 0) >>
    /\ alerts = EmptyBag
    /\ EmptyTables
    /\ sessions = [s \in Sessions |-> IdleSession]
    /\ prev = mailboxes
    /\ last = NoLast

\* one cycle at a time, in the first session
NextTracking ==
    \/ ReplyLoad(1)
    \/ ReplySendStep(1)
    \/ SessionCommit(1)
    \/ RecordOpen
    \/ RecordClick
    \/ TickSend

SpecTracking == InitTracking /\ [][NextTracking]_vars

\* the same callbacks around auto-reply cycles that run as a whole
NextTrackingInTurn ==
    \/ RunAutoReplyCycle
    \/ RecordOpen
    \/ RecordClick
    \/ TickSend

SpecTrackingInTurn == InitTracking /\ [][NextTrackingInTurn]_vars

\* C25: a tracking callback or an auto-reply cycle changes the status of a
\* row only from SENT to OPENED (open callback) or from SENT to REPLIED
\* (auto-reply), so FAILED, OPENED and REPLIED rows keep their status; an
\* opened_at that is set is not overwritten; an unknown token changes nothing;
\* no row is deleted.
C25_StatusChangesOnlyFromSent ==
    last.op \in {"record_open", "record_click", "commit", "auto_reply"} =>
        /\ Len(warmup_emails) >= Len(last.emails_before)
        /\ \A i \in 1 .. Len(last.emails_before) :
              LET b == last.emails_before[i]
                  a == warmup_emails[i]
              IN  /\ a.status # b.status =>
                        /\ b.status = "sent"
                        /\ \/ a.status = "opened" /\ last.op = "record_open"
                           \/ a.status = "replied" /\ last.op \in {"commit", "auto_reply"}
                  /\ b.opened_at # None => a.opened_at = b.opened_at
                  /\ a.sender_mailbox_id = b.sender_mailbox_id
                  /\ a.receiver_mailbox_id = b.receiver_mailbox_id
                  /\ a.sent_at = b.sent_at
        /\ (last.op \in {"record_open", "record_click"} /\ last.mailbox_id = 0)
              => warmup_emails = last.emails_before

----------------------------------------------------------------------------
(* Specification SpecSweep: the daily jobs at their times of day (count     *)
(* reset 00:00, assessment 00:05, recovery sweep 06:00) over mailboxes      *)
(* paused at noon of day 0                                                  *)

MaxSweepDays == 4

\* the time the subjects were paused: noon of day 0
SweepStart == MinutesPerDay \div 2

\* minutes after midnight of the three jobs
ResetTime == 0
AssessmentTime == 5
SweepTime == 6 * 60

SweepConfigs ==
    { [DefaultConfig EXCEPT !.recovery_wait_days = w] : w \in {0, 1, 3} }

\* PAUSED or BLACKLISTED by a write at SweepStart, or warming up
SweepSubjects ==
    { [ConnectedMailbox(0) EXCEPT !.warmup_status = "paused",
                                  !.daily_send_limit = 5,
                                  !.updated_at = SweepStart],
      [ConnectedMailbox(0) EXCEPT !.warmup_status = "blacklisted",
                                  !.is_blacklisted = TRUE,
                                  !.updated_at = SweepStart],
      [ConnectedMailbox(0) EXCEPT !.warmup_status = "warming_up",
                                  !.warmup_started_at = 0,
                                  !.warmup_days_completed = 1,
                                  !.daily_send_limit = 2,
                                  !.updated_at = SweepStart] }

InitSweep ==
    /\ config \in SweepConfigs
    /\ now = SweepStart
    /\ mailboxes \in [MB -> SweepSubjects]
    /\ warmup_emails = <<>>
    /\ alerts = EmptyBag
    /\ EmptyTables
    /\ sessions = NoSessions
    /\ prev = mailboxes
    /\ last = NoLast

\* the time of the next job after minute t
NextJobTime(t) ==
    LET midnight == t - (t % MinutesPerDay)
        tod == t % MinutesPerDay
    IN  IF tod < AssessmentTime THEN midnight + AssessmentTime
        ELSE IF tod < SweepTime THEN midnight + SweepTime
        ELSE midnight + MinutesPerDay + ResetTime

\* the clock runs to the next job once the job of this time has run
ScheduleTick ==
    /\ last.op # "tick"
    /\ DaysBetween(0, NextJobTime(now)) <= MaxSweepDays
    /\ now' = NextJobTime(now)
    /\ prev' = mailboxes
    /\ last' = [NoLast EXCEPT !.op = "tick", !.alerts_before = alerts]
    /\ UNCHANGED <<tables, sessions, mailboxes, config, warmup_emails, alerts>>

JobDailyCountReset ==
    /\ last.op = "tick"
    /\ now % MinutesPerDay = ResetTime
    /\ DailyCountReset

JobDailyAssessment ==
    /\ last.op = "tick"
    /\ now % MinutesPerDay = AssessmentTime
    /\ AssessAll

JobAutoRecoveryCheck ==
    /\ last.op = "tick"
    /\ now % MinutesPerDay = SweepTime
    /\ RunAutoRecoveryCheck

NextSweep ==
    \/ ScheduleTick
    \/ JobDailyCountReset
    \/ JobDailyAssessment
    \/ JobAutoRecoveryCheck

SpecSweep == InitSweep /\ [][NextSweep]_vars

\* midnight passes without the count reset
ResetLeftOut ==
    /\ last.op = "tick"
    /\ now % MinutesPerDay = ResetTime
    /\ prev' = mailboxes
    /\ last' = [NoLast EXCEPT !.op = "no_reset", !.alerts_before = alerts]
    /\ UNCHANGED <<tables, sessions, mailboxes, config, now, warmup_emails, alerts>>

\* the same jobs without the daily count reset
NextSweepNoReset ==
    \/ ScheduleTick
    \/ ResetLeftOut
    \/ JobDailyAssessment
    \/ JobAutoRecoveryCheck

SpecSweepNoReset == InitSweep /\ [][NextSweepNoReset]_vars

\* C26: with auto-recovery enabled and the daily jobs running at their times,
\* a mailbox that has stayed PAUSED or BLACKLISTED is RECOVERING after the
\* first sweep at which recovery_wait_days days have passed since it was
\* paused, at the latest.
C26_PromotedAfterWait ==
    (last.op = "recovery_check" /\ config.auto_recovery_enabled) =>
        \A m \in MB :
            ( /\ Suspended(prev[m])
              /\ DaysBetween(SweepStart, now) >= config.recovery_wait_days )
            => mailboxes[m].warmup_status = "recovering"

----------------------------------------------------------------------------
(* Specification SpecClimb: a mailbox whose recovery has just been started, *)
(* advanced by the recovery sweep under several ramp factors                *)

\* ramp factors above 1, in hundredths: 1.01, 1.2, 1.49, 1.5, 2.0 and 3.0
ClimbFactors == {101, 120, 149, 150, 200, 300}

ClimbConfigs ==
    { [DefaultConfig EXCEPT !.recovery_ramp_factor = f,
                            !.recovery_wait_days = 1] : f \in ClimbFactors }

\* the other mailbox of the store
ClimbPeers ==
    { [ConnectedMailbox(0) EXCEPT !.warmup_status = "paused"],
      [ConnectedMailbox(0) EXCEPT !.warmup_status = "active"],
      [ConnectedMailbox(0) EXCEPT !.warmup_status = "recovering",
                                  !.auto_recovery_started_at = 0,
                                  !.daily_send_limit = 16,
                                  !.warmup_days_completed = 5] }

InitClimb ==
    /\ config \in ClimbConfigs
    /\ now = 0
    /\ \E peer \in ClimbPeers :
          mailboxes = [m \in MB |->
                         IF m = 1
                         THEN start_recovery([ConnectedMailbox(0) EXCEPT
                                                !.warmup_status = "paused"], 0)
                         ELSE peer]
    /\ warmup_emails = <<>>
    /\ alerts = EmptyBag
    /\ EmptyTables
    /\ sessions = NoSessions
    /\ prev = mailboxes
    /\ last = NoLast

NextClimb == RunAutoRecoveryCheck \/ TickDay

\* the scheduler fires the sweep every day
SpecClimb == InitClimb /\ [][NextClimb]_vars /\ WF_vars(RunAutoRecoveryCheck)

\* the same with the ramp factors of at least 1.5 only
InitClimbFromThreeHalves == InitClimb /\ config.recovery_ramp_factor >= 150

SpecClimbFromThreeHalves ==
    InitClimbFromThreeHalves /\ [][NextClimb]_vars /\ WF_vars(RunAutoRecoveryCheck)

\* the first mailbox is WARMING_UP again at some time
EventuallyWarmingUp == <>(mailboxes[1].warmup_status = "warming_up")

\* C27: for every ramp factor greater than 1, a mailbox whose recovery has
\* started (limit 2, day 0) and that every sweep advances eventually
\* completes its recovery and is WARMING_UP again. The ramp is a function of
\* the limit alone, so the recovery completes exactly when no advance leaves
\* a limit below 25 as it was: every advance that leaves the mailbox
\* RECOVERING has raised its limit or finds it at 25 or more.
C27_RecoveryCompletes ==
    last.op = "recovery_check" =>
        \A m \in last.advanced :
            mailboxes[m].warmup_status = "recovering" =>
                \/ mailboxes[m].daily_send_limit > prev[m].daily_send_limit
                \/ mailboxes[m].daily_send_limit >= 25

\* the limits of the default ramp, by the number of advances
DefaultRamp == <<3, 4, 6, 9, 13, 19, 28>>

\* with the factor 1.5 the limits are 3, 4, 6, 9, 13, 19, 28 and the recovery
\* completes on the 7th advance
DefaultRampSchedule ==
    config.recovery_ramp_factor = 150 =>
        LET mb == mailboxes[1]
            d == mb.warmup_days_completed
        IN  /\ d \in 0 .. 7
            /\ d = 0 => mb.daily_send_limit = 2
            /\ d > 0 => mb.daily_send_limit = DefaultRamp[d]
            /\ (mb.warmup_status = "warming_up") <=> (d = 7)
            /\ mb.warmup_status \in {"recovering", "warming_up"}

\* with a factor below 1.5 the limit of the first mailbox stays at 2
StuckBelowThreeHalves ==
    config.recovery_ramp_factor < 150 =>
        /\ mailboxes[1].daily_send_limit = 2
        /\ mailboxes[1].warmup_status = "recovering"

----------------------------------------------------------------------------
(* Specification SpecReentry: the default configuration, mailboxes at every *)
(* day of the warmup and mailboxes near the end of a recovery, under the    *)
(* daily jobs                                                               *)

\* WARMING_UP after the assessment of day d, d = 1 .. total_days
WarmingAtDay(d) ==
    [ConnectedMailbox(0) EXCEPT
        !.warmup_status = "warming_up",
        !.warmup_started_at = 0,
        !.warmup_days_completed = d,
        !.daily_send_limit = get_daily_limit_for_day(d, DefaultConfig)]

\* RECOVERING after the advance of day d of the default ramp, d = 1 .. 6
RecoveringAtDay(d) ==
    [ConnectedMailbox(0) EXCEPT
        !.warmup_status = "recovering",
        !.auto_recovery_started_at = 0,
        !.warmup_days_completed = d,
        !.daily_send_limit = DefaultRamp[d]]

WarmingSubjects ==
    {ConnectedMailbox(0)} \cup {WarmingAtDay(d) : d \in 1 .. DefaultConfig.total_days}

ReentrySubjects == WarmingSubjects \cup {RecoveringAtDay(d) : d \in 4 .. 6}

InitReentry ==
    /\ config = DefaultConfig
    /\ now = SweepStart
    /\ \E first \in ReentrySubjects :
          mailboxes = [m \in MB |-> IF m = 1 THEN first ELSE ConnectedMailbox(0)]
    /\ warmup_emails = <<>>
    /\ alerts = EmptyBag
    /\ EmptyTables
    /\ sessions = NoSessions
    /\ prev = mailboxes
    /\ last = NoLast

SpecReentry == InitReentry /\ [][NextSweep]_vars

\* the same without the mailboxes in recovery
InitWarmingOnly == InitReentry /\ mailboxes[1] \in WarmingSubjects

SpecWarmingOnly == InitWarmingOnly /\ [][NextSweep]_vars

\* C28: under the default phases an assessment of a mailbox that is WARMING_UP
\* before and after it does not lower its daily_send_limit, also when the
\* mailbox came back to WARMING_UP by completing a recovery.
C28_LimitNeverDecreases ==
    \A m \in MB :
        ( /\ Assessed(m)
          /\ prev[m].warmup_status = "warming_up"
          /\ mailboxes[m].warmup_status = "warming_up" )
        => mailboxes[m].daily_send_limit >= prev[m].daily_send_limit

----------------------------------------------------------------------------
(* Specification SpecListed: mailboxes that are not listed at first, under  *)
(* the blacklist check endpoint, the blacklist job, the assessment and the  *)
(* recovery operations                                                      *)

\* every provider answers for the address, or none does
ListedOrClean == { {}, ProviderIds }

\* POST /warmup/blacklist-check for an existing mailbox whose domain resolves
EndpointBlacklistCheck ==
    \E m \in MB, listing \in ListedOrClean : BlacklistCheckOf(m, TRUE, listing)

\* the mailboxes job_blacklist_checks selects
BlacklistJobSelects(mb) ==
    /\ mb.warmup_status \in {"warming_up", "recovering", "cold_ready", "active"}
    /\ mb.is_active

\* job_blacklist_checks: one check for each selected mailbox, in id order
JobBlacklistChecks ==
    \E listing \in [MB -> ListedOrClean] :
        LET selected == {m \in MB : BlacklistJobSelects(mailboxes[m])}
            out == [m \in MB |->
                      run_blacklist_check(m, mailboxes[m], TRUE, listing[m], config, now)]
            rows == SelectSeq([m \in MB |-> out[m].row],
                              LAMBDA r : r.mailbox_id \in selected)
        IN  /\ \A m \in MB \ selected : listing[m] = {}
            /\ ChecksDone + Cardinality(selected) <= MaxChecks
            /\ mailboxes' = [m \in MB |->
                               IF m \in selected THEN out[m].mailbox ELSE mailboxes[m]]
            /\ blacklist_check_results' = blacklist_check_results \o rows
            /\ prev' = mailboxes
            /\ last' = [NoLast EXCEPT
                          !.op = "blacklist_job",
                          !.alerts_before = alerts, !.tables_before = tables]
            /\ UNCHANGED <<config, now, warmup_emails, alerts,
                           dns_check_results, warmup_daily_logs, sessions>>

ListedSubjects ==
    { [ConnectedMailbox(0) EXCEPT !.warmup_status = "warming_up",
                                  !.warmup_started_at = 0,
                                  !.warmup_days_completed = 1,
                                  !.daily_send_limit = 2],
      [ConnectedMailbox(0) EXCEPT !.warmup_status = "paused"] }

InitListed ==
    /\ config = [ShortConfig EXCEPT !.recovery_wait_days = 0, !.recovery_ramp_factor = 300]
    /\ now = MinutesPerDay
    /\ \E first \in ListedSubjects :
          mailboxes = [m \in MB |-> IF m = 1 THEN first
                                    ELSE [ConnectedMailbox(0) EXCEPT !.is_active = FALSE]]
    /\ warmup_emails = <<>>
    /\ alerts = EmptyBag
    /\ EmptyTables
    /\ sessions = NoSessions
    /\ prev = mailboxes
    /\ last = NoLast

NextListedByJobs ==
    \/ JobBlacklistChecks
    \/ AssessAll
    \/ RunAutoRecoveryCheck
    \/ StartRecoveryEndpoint

NextListed == EndpointBlacklistCheck \/ NextListedByJobs

SpecListed == InitListed /\ [][NextListed]_vars

\* the same without the check endpoint
SpecListedByJobs == InitListed /\ [][NextListedByJobs]_vars

\* C29: a mailbox whose status is BLACKLISTED has is_blacklisted = true.
C29_BlacklistedIsFlagged ==
    \A m \in MB :
        mailboxes[m].warmup_status = "blacklisted" => mailboxes[m].is_blacklisted

----------------------------------------------------------------------------
(* Specification SpecChain: one delivered peer email and the cycles that    *)
(* follow it                                                                *)

\* an email delivered half an hour ago from the second mailbox to the first
InitChain ==
    /\ config = [SendConfig EXCEPT !.skip_weekends = FALSE]
    /\ now = SendStart
    /\ mailboxes = OverlapStore
    /\ warmup_emails = <<NewWarmupEmail(2, 1, TRUE, SendStart - 30, 0)>>
    /\ alerts = EmptyBag
    /\ EmptyTables
    /\ sessions = NoSessions
    /\ prev = mailboxes
    /\ last = NoLast

SpecChain == InitChain /\ [][NextCounters]_vars

\* no peer cycle runs after the first email
NextRepliesOnly == RunAutoReplyCycle \/ TickSend

SpecRepliesOnly == InitChain /\ [][NextRepliesOnly]_vars

\* C30: the auto-reply cycle answers only emails the peer cycle created: a
\* row that was itself created as a reply is never REPLIED and no row is a
\* reply to it.
C30_RepliesNeverAnswered ==
    \A i \in 1 .. Len(warmup_emails) :
        warmup_emails[i].in_reply_to # 0 =>
            /\ warmup_emails[i].status # "replied"
            /\ \A j \in 1 .. Len(warmup_emails) : warmup_emails[j].in_reply_to # i

====
